---------------------------- MODULE Spec2Model ----------------------------
(***************************************************************************)
(* Model of msticpy's anomalous-sequence core:                             *)
(*   utils/data_structures.py  StateMatrix, Cmd          (not in src/)     *)
(*   utils/cmds_params_only.py   counting and likelihoods, params as sets  *)
(*   utils/cmds_params_values.py counting and likelihoods, params as dicts *)
(*   utils/probabilities.py      normalisation of the counts               *)
(* Python dicts are TLA+ functions with a finite domain.  Numbers are      *)
(* exact: counts are naturals, probabilities are reduced fractions, and    *)
(* likelihoods (products of fractions and of k-th roots of fractions) are  *)
(* kept as prime factorisations with rational exponents.                   *)
(***************************************************************************)
EXTENDS Integers, Sequences, FiniteSets, TLC

VARIABLES
    pc,          \* position of the pipeline / of the caller
    variant,     \* "only" (cmds_params_only) or "values" (cmds_params_values)
    sm_states,   \* raw mapping handed to StateMatrix(...)
    sm,          \* the constructed StateMatrix, or the failed construction
    sm_lookup,   \* last lookup made on sm: keys and value returned
    sessions,    \* training sessions handed to compute_counts
    counts,      \* tables returned by compute_counts
    probs,       \* tables returned by compute_*_probs
    gp,          \* get_params_to_model_values: its inputs and its result
    call         \* last scoring call: function, arguments, value returned

vars == <<pc, variant, sm_states, sm, sm_lookup, sessions, counts, probs, gp, call>>

----------------------------------------------------------------------------
(* Sentinel tokens: the defaults of compute_counts.                        *)
START_TOKEN == "##START##"
END_TOKEN == "##END##"
UNK_TOKEN == "##UNK##"

None == "None"

----------------------------------------------------------------------------
(* Bounds of the model.                                                    *)
MaxVal == 2          \* values stored in a hand-built StateMatrix: 1..MaxVal
MaxSessions == 2     \* sessions in a training corpus
MaxCmds == 3         \* commands in a training corpus, all sessions together
MaxScoreLen == 3     \* commands in a scored session or window
MaxWindowLen == 3    \* window_len of a scoring call: 1..MaxWindowLen

----------------------------------------------------------------------------
(* Python dict helpers.                                                    *)
EmptyDict == <<>>

Keys(d) == DOMAIN d

\* d[k] = v on a dict: the key is added when absent
DictSet(d, k, v) == [x \in (DOMAIN d) \cup {k} |-> IF x = k THEN v ELSE d[x]]

\* every dict with keys among K and values among V
Dicts(K, V) == UNION {[S -> V] : S \in SUBSET K}

----------------------------------------------------------------------------
(* StateMatrix (utils/data_structures.py).  A table is                     *)
(*   [nested, states, unk_token]; a failed construction is Failed.         *)

\* the asserts of a one-level construction
FlatAssertsHold(states, unk_token) ==
    /\ Keys(states) # {}
    /\ unk_token \in Keys(states)

StateMatrixMutNoUnkRow(nested, states, unk_token) ==
    IF ~FlatAssertsHold(states, unk_token)
      THEN [err |-> TRUE]
      ELSE IF nested /\ \E k \in Keys(states) \ {unk_token} :
                            ~FlatAssertsHold(states[k], unk_token)
             THEN [err |-> TRUE]
             ELSE [err |-> FALSE, nested |-> nested, states |-> states,
                   unk_token |-> unk_token]

\* StateMatrix(states, unk_token): AssertionError, or the table
StateMatrix(nested, states, unk_token) ==
    IF ~FlatAssertsHold(states, unk_token)
      THEN [err |-> TRUE]
      ELSE IF nested /\ \E k \in Keys(states) :
                            ~FlatAssertsHold(states[k], unk_token)
             THEN [err |-> TRUE]
             ELSE [err |-> FALSE, nested |-> nested, states |-> states,
                   unk_token |-> unk_token]

GetItemMutNoFallback(states, unk_token, item) ==
    IF item \in Keys(states) THEN states[item]
    ELSE states[CHOOSE k \in Keys(states) : k # unk_token \/ Keys(states) = {unk_token}]

\* one level of T[item]: the stored value, else the value under unk_token
GetItem(states, unk_token, item) ==
    IF item \in Keys(states) THEN states[item] ELSE states[unk_token]

\* T[k1][k2] on a nested table: the row returned by T[k1] is itself a table
GetItem2(T, k1, k2) ==
    GetItem(GetItem(T.states, T.unk_token, k1), T.unk_token, k2)

----------------------------------------------------------------------------
(* Sequences and folds used by the loops.                                  *)

\* list(d.keys()): the keys of a dict as a list, each key once
RECURSIVE KeyList(_)
KeyList(S) ==
    IF S = {} THEN <<>>
    ELSE LET k == CHOOSE x \in S : TRUE IN <<k>> \o KeyList(S \ {k})

\* sum(d.values())
RECURSIVE SumOver(_, _)
SumOver(d, S) ==
    IF S = {} THEN 0
    ELSE LET k == CHOOSE x \in S : TRUE IN d[k] + SumOver(d, S \ {k})

SumValues(d) == SumOver(d, Keys(d))

\* every list over S of length at most n
RECURSIVE SeqsUpTo(_, _)
SeqsUpTo(S, n) ==
    IF n = 0 THEN {<<>>}
    ELSE LET P == SeqsUpTo(S, n - 1) IN P \cup {Append(s, x) : s \in P, x \in S}

----------------------------------------------------------------------------
(* Cmd (utils/data_structures.py): a name and its params.  In the          *)
(* value-aware variant params is a dict param -> value; the params-only    *)
(* variant receives the set of its keys.                                   *)
Cmd(name, params) == [name |-> name, params |-> params]

ParamSet(cmd) == Keys(cmd.params)

----------------------------------------------------------------------------
(* defaultdict accumulators of compute_counts.                             *)

\* d[k] += 1 on defaultdict(lambda: 0)
Inc(d, k) == DictSet(d, k, (IF k \in Keys(d) THEN d[k] ELSE 0) + 1)

\* d[k], read on defaultdict(lambda: defaultdict(lambda: 0)): a missing
\* row is inserted empty
Touch(d, k) == IF k \in Keys(d) THEN d ELSE DictSet(d, k, EmptyDict)

\* d[k1][k2] += 1
Inc2(d, k1, k2) == DictSet(d, k1, Inc(Touch(d, k1)[k1], k2))

NewCounts ==
    [seq1 |-> EmptyDict, seq2 |-> EmptyDict,
     param |-> EmptyDict, cmd_param |-> EmptyDict,
     value |-> EmptyDict, param_value |-> EmptyDict]

\* for p, v in cmd.params.items(): the four increments (two without values)
RECURSIVE CountParams(_, _, _, _)
CountParams(c, cmd, todo, withValues) ==
    IF todo = {} THEN c
    ELSE LET p == CHOOSE x \in todo : TRUE
             v == cmd.params[p]
             c1 == [c EXCEPT !.param = Inc(c.param, p),
                             !.cmd_param = Inc2(c.cmd_param, cmd.name, p)]
             c2 == IF withValues
                     THEN [c1 EXCEPT !.value = Inc(c1.value, v),
                                     !.param_value = Inc2(c1.param_value, p, v)]
                     ELSE c1
         IN CountParams(c2, cmd, todo \ {p}, withValues)

\* for cmd in session: ...; returns the counts and the last prev
RECURSIVE CountSession(_, _, _, _, _)
CountSession(c, session, i, prev, withValues) ==
    IF i > Len(session) THEN [c |-> c, prev |-> prev]
    ELSE LET cmd == session[i]
             c1 == [c EXCEPT !.seq1 = Inc(c.seq1, cmd.name),
                             !.seq2 = Inc2(c.seq2, prev, cmd.name)]
             c2 == CountParams(c1, cmd, ParamSet(cmd), withValues)
         IN CountSession(c2, session, i + 1, cmd.name, withValues)

\* for session in sessions: ...
RECURSIVE CountSessions(_, _, _, _, _, _)
CountSessions(c, sess, i, start_token, end_token, withValues) ==
    IF i > Len(sess) THEN c
    ELSE LET c1 == [c EXCEPT !.seq1 = Inc(c.seq1, start_token)]
             r == CountSession(c1, sess[i], 1, start_token, withValues)
             c2 == [r.c EXCEPT !.seq2 = Inc2(r.c.seq2, r.prev, end_token)]
             c3 == [c2 EXCEPT !.seq1 = Inc(c2.seq1, end_token)]
         IN CountSessions(c3, sess, i + 1, start_token, end_token, withValues)

SmoothPairGuardMutEveryPair(cmd1, cmd2, start_token, end_token) == TRUE

SmoothPairGuardMutNoStart(cmd1, cmd2, start_token, end_token) ==
    cmd1 # end_token /\ cmd1 # start_token /\ cmd2 # start_token

\* if cmd1 != end_token and cmd2 != start_token
SmoothPairGuard(cmd1, cmd2, start_token, end_token) ==
    cmd1 # end_token /\ cmd2 # start_token

RECURSIVE SmoothCmdsMutOneUnigram(_, _, _, _, _, _)
SmoothCmdsMutOneUnigram(c, cmds, i, j, start_token, end_token) ==
    IF i > Len(cmds) THEN c
    ELSE IF j > Len(cmds)
           THEN SmoothCmdsMutOneUnigram(c, cmds, i + 1, 1, start_token, end_token)
    ELSE SmoothCmdsMutOneUnigram(
             IF SmoothPairGuard(cmds[i], cmds[j], start_token, end_token)
               THEN [c EXCEPT !.seq1 = Inc(c.seq1, cmds[i]),
                              !.seq2 = Inc2(c.seq2, cmds[i], cmds[j])]
               ELSE c,
             cmds, i, j + 1, start_token, end_token)

\* laplace smoothing for cmds: for cmd1 in cmds: for cmd2 in cmds: ...
RECURSIVE SmoothCmds(_, _, _, _, _, _)
SmoothCmds(c, cmds, i, j, start_token, end_token) ==
    IF i > Len(cmds) THEN c
    ELSE IF j > Len(cmds) THEN SmoothCmds(c, cmds, i + 1, 1, start_token, end_token)
    ELSE LET cmd1 == cmds[i]
             cmd2 == cmds[j]
             c1 == IF SmoothPairGuard(cmd1, cmd2, start_token, end_token)
                     THEN [c EXCEPT !.seq1 = Inc(Inc(c.seq1, cmd1), cmd2),
                                    !.seq2 = Inc2(c.seq2, cmd1, cmd2)]
                     ELSE c
         IN SmoothCmds(c1, cmds, i, j + 1, start_token, end_token)

RECURSIVE SmoothJointMutNoGuard(_, _, _, _, _, _, _)
SmoothJointMutNoGuard(single, joint, outer, inner, i, j, unk_token) ==
    IF i > Len(outer) THEN [single |-> single, joint |-> joint]
    ELSE IF j > Len(inner)
           THEN SmoothJointMutNoGuard(single, joint, outer, inner, i + 1, 1, unk_token)
    ELSE SmoothJointMutNoGuard(Inc(single, inner[j]), Inc2(joint, outer[i], inner[j]),
                               outer, inner, i, j + 1, unk_token)

\* laplace smoothing for params (and, with the same loop, for values):
\* for a in outer: for b in inner:
\*     if b in joint[a] or b == unk_token: single[b] += 1; joint[a][b] += 1
RECURSIVE SmoothJoint(_, _, _, _, _, _, _)
SmoothJoint(single, joint, outer, inner, i, j, unk_token) ==
    IF i > Len(outer) THEN [single |-> single, joint |-> joint]
    ELSE IF j > Len(inner)
           THEN SmoothJoint(single, joint, outer, inner, i + 1, 1, unk_token)
    ELSE LET a == outer[i]
             b == inner[j]
             touched == Touch(joint, a)
         IN IF b \in Keys(touched[a]) \/ b = unk_token
              THEN SmoothJoint(Inc(single, b), Inc2(touched, a, b),
                               outer, inner, i, j + 1, unk_token)
              ELSE SmoothJoint(single, touched, outer, inner, i, j + 1, unk_token)

KeysPlusUnkMutNoUnk(d, unk_token) == KeyList(Keys(d))

\* list(d.keys()) + [unk_token]
KeysPlusUnk(d, unk_token) == KeyList(Keys(d)) \o <<unk_token>>

SetParamCountsMutExtraUnigram(c, r) == [c EXCEPT !.param = [k \in Keys(r.single) |-> r.single[k] + 1], !.cmd_param = r.joint]

SetParamCounts(c, r) == [c EXCEPT !.param = r.single, !.cmd_param = r.joint]

SetValueCounts(c, r) == [c EXCEPT !.value = r.single, !.param_value = r.joint]

LaplaceValuesMutEveryValue(c, params, unk_token, withValues) ==
    IF withValues
      THEN SetValueCounts(c, SmoothJointMutNoGuard(c.value, c.param_value, params,
                                 KeysPlusUnk(c.value, unk_token), 1, 1, unk_token))
      ELSE c

\* "apply laplace smoothing for the values" (value-aware variant only)
LaplaceValues(c, params, unk_token, withValues) ==
    IF withValues
      THEN SetValueCounts(c, SmoothJoint(c.value, c.param_value, params,
                                         KeysPlusUnk(c.value, unk_token), 1, 1, unk_token))
      ELSE c

\* "apply laplace smoothing for the params", then the values
LaplaceParams(c, cmds, params, unk_token, withValues) ==
    LaplaceValues(SetParamCounts(c, SmoothJoint(c.param, c.cmd_param, cmds, params,
                                                1, 1, unk_token)),
                  params, unk_token, withValues)

\* "apply laplace smoothing for the cmds", then the params and the values
LaplaceCmds(c, cmds, start_token, end_token, unk_token, withValues) ==
    LaplaceParams(SmoothCmds(c, cmds, 1, 1, start_token, end_token), cmds,
                  KeysPlusUnk(c.param, unk_token), unk_token, withValues)

LaplaceMutTokensAlways(c, start_token, end_token, unk_token, withValues) ==
    LaplaceCmds(c, KeyList(Keys(c.seq1) \cup {start_token, end_token}) \o <<unk_token>>,
                start_token, end_token, unk_token, withValues)

\* cmds = list(seq1_counts.keys()) + [unk_token], then the three smoothings
Laplace(c, start_token, end_token, unk_token, withValues) ==
    LaplaceCmds(c, KeysPlusUnk(c.seq1, unk_token), start_token, end_token,
                unk_token, withValues)

\* the counting and smoothing of compute_counts, before the tables are wrapped
RawCounts(sess, start_token, end_token, unk_token, withValues) ==
    Laplace(CountSessions(NewCounts, sess, 1, start_token, end_token, withValues),
            start_token, end_token, unk_token, withValues)

\* the StateMatrix(...) wrapping at the end of compute_counts
NotWrapped == [err |-> FALSE]

CountTables(s1, s2, p1, p2, v1, v2) ==
    [made |-> TRUE,
     err |-> s1.err \/ s2.err \/ p1.err \/ p2.err \/ v1.err \/ v2.err,
     seq1_counts |-> s1, seq2_counts |-> s2,
     param_counts |-> p1, cmd_param_counts |-> p2,
     value_counts |-> v1, param_value_counts |-> v2]

WrapCounts(c, unk_token, withValues) ==
    CountTables(StateMatrix(FALSE, c.seq1, unk_token),
                StateMatrix(TRUE, c.seq2, unk_token),
                StateMatrix(FALSE, c.param, unk_token),
                StateMatrix(TRUE, c.cmd_param, unk_token),
                IF withValues THEN StateMatrix(FALSE, c.value, unk_token)
                ELSE NotWrapped,
                IF withValues THEN StateMatrix(TRUE, c.param_value, unk_token)
                ELSE NotWrapped)

\* cmds_params_only.compute_counts
compute_counts_only(sess, start_token, end_token, unk_token) ==
    WrapCounts(RawCounts(sess, start_token, end_token, unk_token, FALSE),
               unk_token, FALSE)

\* cmds_params_values.compute_counts
compute_counts_values(sess, start_token, end_token, unk_token) ==
    WrapCounts(RawCounts(sess, start_token, end_token, unk_token, TRUE),
               unk_token, TRUE)

----------------------------------------------------------------------------
(* Exact fractions: count / total is kept as a reduced pair.               *)
RECURSIVE Gcd(_, _)
Gcd(a, b) == IF b = 0 THEN a ELSE Gcd(b, a % b)

\* n / d for naturals n and d > 0
Frac(n, d) == LET g == Gcd(n, d) IN [n |-> n \div g, d |-> d \div g]

FracMul(x, y) == Frac(x.n * y.n, x.d * y.d)

FracAdd(x, y) == Frac(x.n * y.d + y.n * x.d, x.d * y.d)

\* 1 - p for a probability p
FracOneMinus(x) == Frac(x.d - x.n, x.d)

FracOne == Frac(1, 1)

FracZero == Frac(0, 1)

RECURSIVE FracSumOver(_, _)
FracSumOver(d, S) ==
    IF S = {} THEN FracZero
    ELSE LET k == CHOOSE x \in S : TRUE IN FracAdd(d[k], FracSumOver(d, S \ {k}))

----------------------------------------------------------------------------
(* probabilities.py: normalisation of the counts.  A table argument is a   *)
(* StateMatrix: its keys and items are those of the wrapped dict.          *)

NormaliseMutOffByOne(count, total) == Frac(count, total + 1)

\* count / total
Normalise(count, total) == Frac(count, total)

\* for k, count in d.items(): out[k] = count / sum(d.values())
NormaliseDict(d) == [k \in Keys(d) |-> Normalise(d[k], SumValues(d))]

\* a division count / 0 is made while a one-level table is normalised
ZeroDivFlat(d) == Keys(d) # {} /\ SumValues(d) = 0

\* a division count / 0 is made while the rows of a table are normalised
ZeroDivRows(d) == \E a \in Keys(d) : ZeroDivFlat(d[a])

ProbTables(s, j) == [made |-> TRUE, err |-> s.err \/ j.err, single |-> s, joint |-> j]

\* the two loops and the two StateMatrix(...) of a compute_*_probs
DeriveProbs(single, joint, unk_token) ==
    IF ZeroDivFlat(single.states) \/ ZeroDivRows(joint.states)
      THEN [made |-> TRUE, err |-> TRUE]
      ELSE ProbTables(StateMatrix(FALSE, NormaliseDict(single.states), unk_token),
                      StateMatrix(TRUE,
                                  [a \in Keys(joint.states) |->
                                      NormaliseDict(joint.states[a])],
                                  unk_token))

\* returns prior_probs (single) and trans_probs (joint)
compute_cmds_probs(seq1_counts, seq2_counts, unk_token) ==
    DeriveProbs(seq1_counts, seq2_counts, unk_token)

\* returns param_probs (single) and param_cond_cmd_probs (joint)
compute_params_probs(param_counts, cmd_param_counts, unk_token) ==
    DeriveProbs(param_counts, cmd_param_counts, unk_token)

\* returns value_probs (single) and value_cond_param_probs (joint)
compute_values_probs(value_counts, param_value_counts, unk_token) ==
    DeriveProbs(value_counts, param_value_counts, unk_token)

----------------------------------------------------------------------------
(* Likelihoods.  A likelihood is nan, 0, or a positive real kept as its    *)
(* prime factorisation: e[p] is the (rational) exponent of the prime p,    *)
(* and only primes with a non-zero exponent are in DOMAIN e.  Products     *)
(* add exponents and x ** (1 / k) divides them by k, so equal numbers have *)
(* equal representations.                                                  *)
Abs(n) == IF n < 0 THEN -n ELSE n

\* n / d for an integer n and d > 0, reduced
QNorm(n, d) == [n |-> n \div Gcd(Abs(n), d), d |-> d \div Gcd(Abs(n), d)]

QAdd(x, y) == QNorm(x.n * y.d + y.n * x.d, x.d * y.d)

QZero == QNorm(0, 1)

RECURSIVE Valuation(_, _)
Valuation(n, p) == IF n % p = 0 THEN 1 + Valuation(n \div p, p) ELSE 0

IsPrime(p) == p > 1 /\ \A q \in 2..(p - 1) : p % q # 0

PrimeDivisors(n) == {p \in 2..n : n % p = 0 /\ IsPrime(p)}

NaN == [kind |-> "nan"]

Zero == [kind |-> "zero"]

Positive(e) == [kind |-> "pos", e |-> e]

One == Positive(EmptyDict)

\* the likelihood equal to the fraction f
FromFrac(f) ==
    IF f.n = 0 THEN Zero
    ELSE Positive([p \in PrimeDivisors(f.n) \cup PrimeDivisors(f.d) |->
                      IF f.n % p = 0 THEN QNorm(Valuation(f.n, p), 1)
                      ELSE QNorm(-Valuation(f.d, p), 1)])

ExpAt(e, p) == IF p \in Keys(e) THEN e[p] ELSE QZero

\* keep the primes whose exponent is not zero
Trim(e) == [p \in {q \in Keys(e) : e[q].n # 0} |-> e[p]]

\* x * y
Mul(x, y) ==
    IF x.kind = "nan" \/ y.kind = "nan" THEN NaN
    ELSE IF x.kind = "zero" \/ y.kind = "zero" THEN Zero
    ELSE Positive(Trim([p \in Keys(x.e) \cup Keys(y.e) |->
                           QAdd(ExpAt(x.e, p), ExpAt(y.e, p))]))

\* x ** (1 / k) for k > 0
Root(x, k) ==
    IF x.kind = "pos"
      THEN Positive([p \in Keys(x.e) |-> QNorm(x.e[p].n, x.e[p].d * k)])
      ELSE x

(* Comparison of two positive likelihoods: x < y iff x / y < 1; the        *)
(* exponents of x / y are brought to integers (a positive power keeps the  *)
(* order) and the two sides are multiplied out as naturals of any size.    *)
BigBase == 10000

\* b * m for a natural b (digits in base BigBase, lowest first), carry c
RECURSIVE BigMulCarry(_, _, _)
BigMulCarry(b, m, c) ==
    IF b = <<>>
      THEN IF c = 0 THEN <<>> ELSE <<c % BigBase>> \o BigMulCarry(b, m, c \div BigBase)
      ELSE <<(Head(b) * m + c) % BigBase>>
             \o BigMulCarry(Tail(b), m, (Head(b) * m + c) \div BigBase)

\* b * p^k
RECURSIVE BigMulPow(_, _, _)
BigMulPow(b, p, k) == IF k = 0 THEN b ELSE BigMulPow(BigMulCarry(b, p, 0), p, k - 1)

\* b times the product of p^a[p] over the primes p of S
RECURSIVE BigProduct(_, _, _)
BigProduct(b, a, S) ==
    IF S = {} THEN b
    ELSE BigProduct(BigMulPow(b, CHOOSE p \in S : TRUE, Abs(a[CHOOSE p \in S : TRUE])),
                    a, S \ {CHOOSE p \in S : TRUE})

\* a < b for naturals with as many digits: decided by the highest digit
\* that differs
RECURSIVE BigLessFrom(_, _, _)
BigLessFrom(a, b, i) ==
    IF i = 0 THEN FALSE
    ELSE IF a[i] # b[i] THEN a[i] < b[i]
    ELSE BigLessFrom(a, b, i - 1)

BigLess(a, b) ==
    IF Len(a) # Len(b) THEN Len(a) < Len(b) ELSE BigLessFrom(a, b, Len(a))

RECURSIVE LcmDen(_, _)
LcmDen(e, S) ==
    IF S = {} THEN 1
    ELSE (e[CHOOSE p \in S : TRUE].d * LcmDen(e, S \ {CHOOSE p \in S : TRUE}))
            \div Gcd(e[CHOOSE p \in S : TRUE].d, LcmDen(e, S \ {CHOOSE p \in S : TRUE}))

\* the integer exponents e[p] * m
Scaled(e, m) == [p \in Keys(e) |-> e[p].n * (m \div e[p].d)]

\* the number with integer exponents a is below 1
IntExpBelowOne(a) ==
    BigLess(BigProduct(<<1>>, a, {p \in Keys(a) : a[p] > 0}),
            BigProduct(<<1>>, a, {p \in Keys(a) : a[p] < 0}))

ExpBelowOne(e) == IntExpBelowOne(Scaled(e, LcmDen(e, Keys(e))))

\* the exponents of x / y
ExpQuotient(ex, ey) ==
    Trim([p \in Keys(ex) \cup Keys(ey) |->
             QAdd(ExpAt(ex, p), QNorm(-ExpAt(ey, p).n, ExpAt(ey, p).d))])

\* x < y as Python compares floats: False when either is nan
Less(x, y) ==
    IF x.kind = "nan" \/ y.kind = "nan" THEN FALSE
    ELSE IF y.kind = "zero" THEN FALSE
    ELSE IF x.kind = "zero" THEN TRUE
    ELSE ExpBelowOne(ExpQuotient(x.e, y.e))

----------------------------------------------------------------------------
(* Likelihood functions of cmds_params_only.py and cmds_params_values.py.  *)
(* The probability tables of a call are gathered in a record M:            *)
(*   variant, prior_probs, trans_probs, param_cond_cmd_probs,              *)
(*   value_cond_param_probs, modellable_params.                            *)

\* an exception leaving the call
Raised(exc) == [kind |-> exc]

IsRaised(x) == x.kind \in {"AssertionError", "ZeroDivisionError"}

\* a * b, unless a or b is an exception on its way out
Times(a, b) == IF IsRaised(a) THEN a ELSE IF IsRaised(b) THEN b ELSE Mul(a, b)

\* T[k1][k2] of a probability table, as a likelihood
Prob2(T, k1, k2) == FromFrac(GetItem2(T, k1, k2))

\* T[k] of a one-level probability table, as a likelihood
Prob1(T, k) == FromFrac(GetItem(T.states, T.unk_token, k))

PresenceFactorMutAlwaysPresent(ref, params, q) == ref[q]

\* p if param in params, else 1 - p
PresenceFactor(ref, params, q) ==
    IF q \in params THEN ref[q] ELSE FracOneMinus(ref[q])

\* params-only: for param, p in ref.items(): prob *= ...
RECURSIVE LoopOnly(_, _, _, _)
LoopOnly(prob, ref, params, todo) ==
    IF todo = {} THEN prob
    ELSE LoopOnly(FracMul(prob, PresenceFactor(ref, params, CHOOSE q \in todo : TRUE)),
                  ref, params, todo \ {CHOOSE q \in todo : TRUE})

\* params-only: if use_geo_mean: k = len(ref); prob = prob ** (1 / k)
GeoOnly(prob, k, use_geo_mean) ==
    IF use_geo_mean
      THEN IF k = 0 THEN Raised("ZeroDivisionError") ELSE Root(FromFrac(prob), k)
      ELSE FromFrac(prob)

OnlyGivenRefMutParamsExponent(ref, params, use_geo_mean) ==
    GeoOnly(LoopOnly(FracOne, ref, params, Keys(ref)), Cardinality(params),
            use_geo_mean)

OnlyGivenRef(ref, params, use_geo_mean) ==
    GeoOnly(LoopOnly(FracOne, ref, params, Keys(ref)), Cardinality(Keys(ref)),
            use_geo_mean)

\* cmds_params_only.compute_prob_setofparams_given_cmd
compute_prob_setofparams_given_cmd_only(cmd, params, param_cond_cmd_probs, use_geo_mean) ==
    IF Cardinality(params) = 0 THEN One
    ELSE OnlyGivenRef(GetItem(param_cond_cmd_probs.states,
                              param_cond_cmd_probs.unk_token, cmd),
                      params, use_geo_mean)

StepValuesMutEveryValue(acc, ref, pwv, vcp, modellable, q) ==
    IF q \in Keys(pwv)
      THEN [prob |-> FracMul(FracMul(acc.prob, ref[q]), GetItem2(vcp, q, pwv[q])),
            num |-> acc.num + 1]
      ELSE [prob |-> FracMul(acc.prob, FracOneMinus(ref[q])), num |-> acc.num]

\* value-aware: one turn of "for param, p1 in ref_cmd.items()"
StepValues(acc, ref, pwv, vcp, modellable, q) ==
    IF q \in Keys(pwv)
      THEN IF q \in modellable
             THEN [prob |-> FracMul(FracMul(acc.prob, ref[q]),
                                    GetItem2(vcp, q, pwv[q])),
                   num |-> acc.num + 1]
             ELSE [prob |-> FracMul(acc.prob, ref[q]), num |-> acc.num]
      ELSE [prob |-> FracMul(acc.prob, FracOneMinus(ref[q])), num |-> acc.num]

RECURSIVE LoopValues(_, _, _, _, _, _)
LoopValues(acc, ref, pwv, vcp, modellable, todo) ==
    IF todo = {} THEN acc
    ELSE LoopValues(StepValues(acc, ref, pwv, vcp, modellable, CHOOSE q \in todo : TRUE),
                    ref, pwv, vcp, modellable, todo \ {CHOOSE q \in todo : TRUE})

GeoValuesMutNoRoot(acc, lenref, use_geo_mean) == FromFrac(acc.prob)

\* value-aware: if use_geo_mean: k = len(ref_cmd) + num; if k > 0: ...
GeoValues(acc, lenref, use_geo_mean) ==
    IF use_geo_mean /\ lenref + acc.num > 0
      THEN Root(FromFrac(acc.prob), lenref + acc.num)
      ELSE FromFrac(acc.prob)

ValuesGivenRef(ref, pwv, vcp, modellable, use_geo_mean) ==
    GeoValues(LoopValues([prob |-> FracOne, num |-> 0], ref, pwv, vcp, modellable,
                         Keys(ref)),
              Cardinality(Keys(ref)), use_geo_mean)

\* cmds_params_values.compute_prob_setofparams_given_cmd
compute_prob_setofparams_given_cmd_values(cmd, params_with_vals, param_cond_cmd_probs, value_cond_param_probs, modellable_params, use_geo_mean) ==
    IF Cardinality(Keys(params_with_vals)) = 0 THEN One
    ELSE ValuesGivenRef(GetItem(param_cond_cmd_probs.states,
                                param_cond_cmd_probs.unk_token, cmd),
                        params_with_vals, value_cond_param_probs, modellable_params,
                        use_geo_mean)

\* the call compute_likelihood_window makes for one command of the window
\* (use_geo_mean=True), in the variant of M
ParamLikelihood(M, cmd) ==
    IF M.variant = "only"
      THEN compute_prob_setofparams_given_cmd_only(
               cmd.name, ParamSet(cmd), M.param_cond_cmd_probs, TRUE)
      ELSE compute_prob_setofparams_given_cmd_values(
               cmd.name, cmd.params, M.param_cond_cmd_probs,
               M.value_cond_param_probs, M.modellable_params, TRUE)

\* window[j] for a Python index j, negative indices counting from the end
PyAt(window, j) == IF j < 0 THEN window[Len(window) + j + 1] ELSE window[j + 1]

FirstFactorMutAlwaysStart(window, M, use_start_token, start_token) ==
    Times(Prob2(M.trans_probs, start_token, window[1].name),
          ParamLikelihood(M, window[1]))

\* prob *= trans_probs[start_token][cur_cmd] * param_cond_prob, or the prior
FirstFactor(window, M, use_start_token, start_token) ==
    Times(IF use_start_token
            THEN Prob2(M.trans_probs, start_token, window[1].name)
            ELSE Prob1(M.prior_probs, window[1].name),
          ParamLikelihood(M, window[1]))

\* prev of "prev, cur = window[i - 1], window[i]"
LoopPrev(window, i) == PyAt(window, i - 1)

\* cur of "prev, cur = window[i - 1], window[i]"
LoopCur(window, i) == PyAt(window, i)

\* for i, cmdparam in enumerate(window[1:]): i runs over 0 .. len(window) - 2
RECURSIVE WindowLoop(_, _, _, _)
WindowLoop(prob, window, M, i) ==
    IF i > Len(window) - 2 THEN prob
    ELSE WindowLoop(
            Times(Times(prob, Prob2(M.trans_probs, LoopPrev(window, i).name,
                                    LoopCur(window, i).name)),
                  ParamLikelihood(M, LoopCur(window, i))),
            window, M, i + 1)

\* cur_cmd when the loop is over: window[0].name, or the last cur of the loop
LastCurCmd(window) ==
    IF Len(window) >= 2 THEN LoopCur(window, Len(window) - 2).name
    ELSE window[1].name

\* if use_end_token: prob *= trans_probs[cur_cmd][end_token]
EndFactor(prob, window, M, use_end_token, end_token) ==
    IF use_end_token
      THEN Times(prob, Prob2(M.trans_probs, LastCurCmd(window), end_token))
      ELSE prob

compute_likelihood_windowMutEmptyFirst(window, M, use_start_token, use_end_token, start_token, end_token) ==
    IF Len(window) = 0 THEN NaN
    ELSE IF (use_start_token /\ start_token = None) \/ (use_end_token /\ end_token = None)
      THEN Raised("AssertionError")
    ELSE EndFactor(WindowLoop(FirstFactor(window, M, use_start_token, start_token),
                              window, M, 0),
                   window, M, use_end_token, end_token)

\* compute_likelihood_window (both variants)
compute_likelihood_window(window, M, use_start_token, use_end_token, start_token, end_token) ==
    IF (use_start_token /\ start_token = None) \/ (use_end_token /\ end_token = None)
      THEN Raised("AssertionError")
    ELSE IF Len(window) = 0 THEN NaN
    ELSE EndFactor(WindowLoop(FirstFactor(window, M, use_start_token, start_token),
                              window, M, 0),
                   window, M, use_end_token, end_token)

ExtendedMutAlways(session, use_start_end_tokens, end_token) ==
    Append(session, Cmd(end_token, EmptyDict))

CopySessionMutAliased(session) ==
    [lists |-> [session |-> session, copy |-> <<>>], sess |-> "session"]

\* sess = session.copy(): two list objects, the caller's and the fresh copy,
\* and the object the local name sess is bound to
CopySession(session) ==
    [lists |-> [session |-> session, copy |-> session], sess |-> "copy"]

\* if use_start_end_tokens: sess += [Cmd(end_token, {})], in place on the
\* object sess is bound to
AppendEndToken(heap, use_start_end_tokens, end_token) ==
    IF use_start_end_tokens
      THEN [heap EXCEPT !.lists[heap.sess] = Append(@, Cmd(end_token, EmptyDict))]
      ELSE heap

\* the two list objects once the end-token command is appended
SessionLists(session, use_start_end_tokens, end_token) ==
    AppendEndToken(CopySession(session), use_start_end_tokens, end_token)

\* the caller's list object when the call returns
SessionAfter(session, use_start_end_tokens, end_token) ==
    SessionLists(session, use_start_end_tokens, end_token).lists.session

\* sess, the list the windows are sliced from
Extended(session, use_start_end_tokens, end_token) ==
    SessionLists(session, use_start_end_tokens, end_token).lists[
        SessionLists(session, use_start_end_tokens, end_token).sess]

\* seq[lo:hi] for 0 <= lo <= hi
PySlice(seq, lo, hi) ==
    SubSeq(seq, lo + 1, IF hi < Len(seq) THEN hi ELSE Len(seq))

GeoWindowMutSquareRoot(lik, window_len, use_geo_mean) ==
    IF use_geo_mean /\ ~IsRaised(lik) THEN Root(lik, 2) ELSE lik

\* if use_geo_mean: lik = lik ** (1 / window_len)
GeoWindow(lik, window_len, use_geo_mean) ==
    IF use_geo_mean /\ ~IsRaised(lik) THEN Root(lik, window_len) ELSE lik

WindowLikelihoodsMutStartEverywhere(sess, M, window_len, use_start_end_tokens, start_token, end_token, use_geo_mean) ==
    [n \in 1..(Len(sess) - window_len + 1) |->
        GeoWindow(compute_likelihood_window(
                      PySlice(sess, n - 1, n - 1 + window_len), M,
                      use_start_end_tokens, FALSE, start_token, end_token),
                  window_len, use_geo_mean)]

\* the likelihoods of "for i in range(end + 1)", i from 0
WindowLikelihoods(sess, M, window_len, use_start_end_tokens, start_token, end_token, use_geo_mean) ==
    [n \in 1..(Len(sess) - window_len + 1) |->
        GeoWindow(compute_likelihood_window(
                      PySlice(sess, n - 1, n - 1 + window_len), M,
                      IF n - 1 = 0 THEN use_start_end_tokens ELSE FALSE, FALSE,
                      start_token, end_token),
                  window_len, use_geo_mean)]

\* the list returned, or the exception of the first window that raises
ListOrRaise(L) ==
    IF \E n \in 1..Len(L) : IsRaised(L[n])
      THEN [raised |-> TRUE, likelihoods |-> <<>>]
      ELSE [raised |-> FALSE, likelihoods |-> L]

\* compute_likelihood_windows_in_session (both variants), window_len >= 1
compute_likelihood_windows_in_session(session, M, window_len, use_start_end_tokens, start_token, end_token, use_geo_mean) ==
    IF use_start_end_tokens /\ (start_token = None \/ end_token = None)
      THEN [raised |-> TRUE, likelihoods |-> <<>>]
      ELSE ListOrRaise(WindowLikelihoods(
               Extended(session, use_start_end_tokens, end_token), M, window_len,
               use_start_end_tokens, start_token, end_token, use_geo_mean))

RECURSIVE PyMinMutMax(_, _, _)
PyMinMutMax(L, m, n) ==
    IF n > Len(L) THEN m
    ELSE PyMinMutMax(L, IF Less(m, L[n]) THEN L[n] ELSE m, n + 1)

\* min(L) from position n on, m being the least so far: a later element
\* replaces m only when it is strictly below it
RECURSIVE PyMin(_, _, _)
PyMin(L, m, n) ==
    IF n > Len(L) THEN m
    ELSE PyMin(L, IF Less(L[n], m) THEN L[n] ELSE m, n + 1)

\* L.index(x): the first position (from 0) holding x
PyIndex(L, x) ==
    (CHOOSE n \in 1..Len(L) : L[n] = x /\ \A k \in 1..(n - 1) : L[k] # x) - 1

\* return session[ind:ind + window_len], min_lik
RarestAt(session, window_len, L, min_lik) ==
    [raised |-> FALSE,
     ind |-> PyIndex(L, min_lik),
     window |-> PySlice(session, PyIndex(L, min_lik), PyIndex(L, min_lik) + window_len),
     lik |-> min_lik]

RarestOf(session, window_len, r) ==
    IF r.raised THEN [raised |-> TRUE, ind |-> 0, window |-> <<>>, lik |-> NaN]
    ELSE IF Len(r.likelihoods) = 0
      THEN [raised |-> FALSE, ind |-> 0, window |-> <<>>, lik |-> NaN]
    ELSE RarestAt(session, window_len, r.likelihoods,
                  PyMin(r.likelihoods, r.likelihoods[1], 2))

\* rarest_window_session (both variants)
rarest_window_session(session, M, window_len, use_start_end_tokens, start_token, end_token, use_geo_mean) ==
    RarestOf(session, window_len,
             compute_likelihood_windows_in_session(
                 session, M, window_len, use_start_end_tokens,
                 start_token, end_token, use_geo_mean))

----------------------------------------------------------------------------
(* Hand-built tables: the inputs of the StateMatrix checks.                *)
TopKeys == {"haha", "hehe", UNK_TOKEN}
RowKeys == {"lol", UNK_TOKEN}
LookupTop == TopKeys \cup {"kidhf"}
LookupRow == RowKeys \cup {"kfji"}

FlatMappings == Dicts(TopKeys, 1..MaxVal)
NestedMappings == Dicts(TopKeys, Dicts(RowKeys, 1..MaxVal))

NoTable == [err |-> TRUE]
NoLookup == [made |-> FALSE]
NoCounts == [made |-> FALSE]
NoDerived == [made |-> FALSE, err |-> FALSE]
NoProbsYet == [cmds |-> NoDerived, params |-> NoDerived, values |-> NoDerived]
NoGp == [made |-> FALSE]
NoCall == [fn |-> None]

InitSM ==
    /\ pc = "sm_input"
    /\ variant = None
    /\ \E nested \in BOOLEAN :
         \E m \in (IF nested THEN NestedMappings ELSE FlatMappings) :
            sm_states = [nested |-> nested, states |-> m]
    /\ sm = NoTable
    /\ sm_lookup = NoLookup
    /\ sessions = <<>>
    /\ counts = NoCounts
    /\ probs = NoProbsYet
    /\ gp = NoGp
    /\ call = NoCall

\* StateMatrix(states, UNK_TOKEN)
Construct ==
    /\ pc = "sm_input"
    /\ sm' = StateMatrix(sm_states.nested, sm_states.states, UNK_TOKEN)
    /\ pc' = IF sm'.err THEN "sm_failed" ELSE "sm_built"
    /\ UNCHANGED <<variant, sm_states, sm_lookup, sessions, counts, probs, gp, call>>

\* T[k] on a flat table
Lookup1 ==
    /\ pc = "sm_built"
    /\ ~sm.nested
    /\ \E k \in LookupTop :
         sm_lookup' = [made |-> TRUE, keys |-> <<k>>,
                       value |-> GetItem(sm.states, sm.unk_token, k)]
    /\ UNCHANGED <<pc, variant, sm_states, sm, sessions, counts, probs, gp, call>>

\* T[k1][k2] on a nested table
Lookup2 ==
    /\ pc = "sm_built"
    /\ sm.nested
    /\ \E k1 \in LookupTop, k2 \in LookupRow :
         sm_lookup' = [made |-> TRUE, keys |-> <<k1, k2>>,
                       value |-> GetItem2(sm, k1, k2)]
    /\ UNCHANGED <<pc, variant, sm_states, sm, sessions, counts, probs, gp, call>>

NextSM == Construct \/ Lookup1 \/ Lookup2

SpecSM == InitSM /\ [][NextSM]_vars

----------------------------------------------------------------------------
(* Training: compute_counts, then the three compute_*_probs.               *)
TrainCmds ==
    { Cmd("A", [p \in {"p"} |-> "x"]),
      Cmd("A", [p \in {"p", "q"} |-> IF p = "p" THEN "y" ELSE "x"]),
      Cmd("B", EmptyDict),
      Cmd("B", [p \in {"q"} |-> "x"]) }

RECURSIVE TotalLen(_)
TotalLen(sess) == IF sess = <<>> THEN 0 ELSE Len(Head(sess)) + TotalLen(Tail(sess))

\* lists of at most k sessions holding at most n commands in all
RECURSIVE Corpora(_, _)
Corpora(k, n) ==
    IF k = 0 THEN {<<>>}
    ELSE Corpora(k - 1, n) \cup
         UNION {{<<s>> \o c : c \in Corpora(k - 1, n - Len(s))} :
                    s \in SeqsUpTo(TrainCmds, n)}

InitTrain ==
    /\ pc = "train_input"
    /\ variant \in {"only", "values"}
    /\ sm_states = [nested |-> FALSE, states |-> EmptyDict]
    /\ sm = NoTable
    /\ sm_lookup = NoLookup
    /\ sessions \in Corpora(MaxSessions, MaxCmds)
    /\ counts = NoCounts
    /\ probs = NoProbsYet
    /\ gp = NoGp
    /\ call = NoCall

\* cmds_params_only.compute_counts(sessions)
ComputeCountsOnly ==
    /\ pc = "train_input"
    /\ variant = "only"
    /\ counts' = compute_counts_only(sessions, START_TOKEN, END_TOKEN, UNK_TOKEN)
    /\ pc' = IF counts'.err THEN "failed" ELSE "counted"
    /\ UNCHANGED <<variant, sm_states, sm, sm_lookup, sessions, probs, gp, call>>

\* cmds_params_values.compute_counts(sessions)
ComputeCountsValues ==
    /\ pc = "train_input"
    /\ variant = "values"
    /\ counts' = compute_counts_values(sessions, START_TOKEN, END_TOKEN, UNK_TOKEN)
    /\ pc' = IF counts'.err THEN "failed" ELSE "counted"
    /\ UNCHANGED <<variant, sm_states, sm, sm_lookup, sessions, probs, gp, call>>

ComputeCmdsProbs ==
    /\ pc = "counted"
    /\ probs' = [probs EXCEPT !.cmds =
                    compute_cmds_probs(counts.seq1_counts, counts.seq2_counts, UNK_TOKEN)]
    /\ pc' = IF probs'.cmds.err THEN "failed" ELSE "cmds_probs"
    /\ UNCHANGED <<variant, sm_states, sm, sm_lookup, sessions, counts, gp, call>>

ComputeParamsProbs ==
    /\ pc = "cmds_probs"
    /\ probs' = [probs EXCEPT !.params =
                    compute_params_probs(counts.param_counts, counts.cmd_param_counts,
                                         UNK_TOKEN)]
    /\ pc' = IF probs'.params.err THEN "failed"
             ELSE IF variant = "values" THEN "params_probs" ELSE "trained"
    /\ UNCHANGED <<variant, sm_states, sm, sm_lookup, sessions, counts, gp, call>>

ComputeValuesProbs ==
    /\ pc = "params_probs"
    /\ probs' = [probs EXCEPT !.values =
                    compute_values_probs(counts.value_counts, counts.param_value_counts,
                                         UNK_TOKEN)]
    /\ pc' = IF probs'.values.err THEN "failed" ELSE "trained"
    /\ UNCHANGED <<variant, sm_states, sm, sm_lookup, sessions, counts, gp, call>>

NextTrain ==
    \/ ComputeCountsOnly
    \/ ComputeCountsValues
    \/ ComputeCmdsProbs
    \/ ComputeParamsProbs
    \/ ComputeValuesProbs

SpecTrain == InitTrain /\ [][NextTrain]_vars

----------------------------------------------------------------------------
(* Scoring: the tables of a trained model are handed, with a session or a  *)
(* window, to one of the likelihood functions; the functions keep nothing  *)
(* between calls, so a behaviour makes one call.                           *)

\* the training corpora of the scored models: the sessions [[A, B], [A, A]]
\* without params, and a corpus with params and values
ScoreCorpora ==
    { << <<Cmd("A", EmptyDict), Cmd("B", EmptyDict)>>,
         <<Cmd("A", EmptyDict), Cmd("A", EmptyDict)>> >>,
      << <<Cmd("A", [p \in {"p"} |-> "x"]), Cmd("B", [p \in {"q"} |-> "x"]),
           Cmd("B", EmptyDict)>>,
         <<Cmd("A", [p \in {"p", "q"} |-> IF p = "p" THEN "y" ELSE "x"]),
           Cmd("A", EmptyDict)>> >> }

\* the commands of the scored sessions; C is not in any training corpus
ScoreCmds ==
    { Cmd("A", EmptyDict),
      Cmd("A", [p \in {"p"} |-> "x"]),
      Cmd("B", [p \in {"q"} |-> "x"]),
      Cmd("C", [p \in {"p"} |-> "y"]) }

\* a session ending in an unseen command without parameters
ExampleSessions == { <<Cmd("A", EmptyDict), Cmd("C", EmptyDict)>> }

ScoreSessions == SeqsUpTo(ScoreCmds, MaxScoreLen) \cup ExampleSessions

\* the sets handed as modellable_params (value-aware variant)
ModellableChoices == IF variant = "values" THEN {{}, {"p"}} ELSE {{}}

\* the tables of the trained model, with the modellable_params of the call
Model(modellable) ==
    [variant |-> variant,
     prior_probs |-> probs.cmds.single,
     trans_probs |-> probs.cmds.joint,
     param_cond_cmd_probs |-> probs.params.joint,
     value_cond_param_probs |-> IF variant = "values" THEN probs.values.joint ELSE None,
     modellable_params |-> modellable]

InitScore ==
    /\ pc = "train_input"
    /\ variant \in {"only", "values"}
    /\ sm_states = [nested |-> FALSE, states |-> EmptyDict]
    /\ sm = NoTable
    /\ sm_lookup = NoLookup
    /\ sessions \in ScoreCorpora
    /\ counts = NoCounts
    /\ probs = NoProbsYet
    /\ gp = NoGp
    /\ call = NoCall

\* compute_prob_setofparams_given_cmd(cmd, params, ...), params-only
ProbSetOfParamsOnly ==
    /\ pc = "trained"
    /\ variant = "only"
    /\ \E c \in ScoreCmds, g \in BOOLEAN :
         call' = [fn |-> "compute_prob_setofparams_given_cmd",
                  cmd |-> c, modellable |-> {}, use_geo_mean |-> g,
                  result |-> compute_prob_setofparams_given_cmd_only(
                                 c.name, ParamSet(c), probs.params.joint, g)]
    /\ pc' = "scored"
    /\ UNCHANGED <<variant, sm_states, sm, sm_lookup, sessions, counts, probs, gp>>

\* compute_prob_setofparams_given_cmd(cmd, params_with_vals, ...), value-aware
ProbSetOfParamsValues ==
    /\ pc = "trained"
    /\ variant = "values"
    /\ \E c \in ScoreCmds, g \in BOOLEAN, m \in ModellableChoices :
         call' = [fn |-> "compute_prob_setofparams_given_cmd",
                  cmd |-> c, modellable |-> m, use_geo_mean |-> g,
                  result |-> compute_prob_setofparams_given_cmd_values(
                                 c.name, c.params, probs.params.joint,
                                 probs.values.joint, m, g)]
    /\ pc' = "scored"
    /\ UNCHANGED <<variant, sm_states, sm, sm_lookup, sessions, counts, probs, gp>>

\* compute_likelihood_window(window, ..., use_start_token, use_end_token, ...)
LikelihoodWindow ==
    /\ pc = "trained"
    /\ \E w \in ScoreSessions, us \in BOOLEAN, ue \in BOOLEAN, m \in ModellableChoices :
         call' = [fn |-> "compute_likelihood_window",
                  window |-> w, modellable |-> m,
                  use_start_token |-> us, use_end_token |-> ue,
                  window_after |-> w,
                  result |-> compute_likelihood_window(
                                 w, Model(m), us, ue, START_TOKEN, END_TOKEN)]
    /\ pc' = "scored"
    /\ UNCHANGED <<variant, sm_states, sm, sm_lookup, sessions, counts, probs, gp>>

\* compute_likelihood_windows_in_session(session, ..., window_len, ...)
LikelihoodWindowsInSession ==
    /\ pc = "trained"
    /\ \E x \in ScoreSessions, w \in 1..MaxWindowLen, se \in BOOLEAN, g \in BOOLEAN,
          m \in ModellableChoices :
         call' = [fn |-> "compute_likelihood_windows_in_session",
                  session |-> x, modellable |-> m, window_len |-> w,
                  use_start_end_tokens |-> se, use_geo_mean |-> g,
                  session_after |-> SessionAfter(x, se, END_TOKEN),
                  result |-> compute_likelihood_windows_in_session(
                                 x, Model(m), w, se, START_TOKEN, END_TOKEN, g)]
    /\ pc' = "scored"
    /\ UNCHANGED <<variant, sm_states, sm, sm_lookup, sessions, counts, probs, gp>>

\* rarest_window_session(session, ..., window_len, ...)
RarestWindowSession ==
    /\ pc = "trained"
    /\ \E x \in ScoreSessions, w \in 1..MaxWindowLen, se \in BOOLEAN, g \in BOOLEAN,
          m \in ModellableChoices :
         call' = [fn |-> "rarest_window_session",
                  session |-> x, modellable |-> m, window_len |-> w,
                  use_start_end_tokens |-> se, use_geo_mean |-> g,
                  session_after |-> SessionAfter(x, se, END_TOKEN),
                  result |-> rarest_window_session(
                                 x, Model(m), w, se, START_TOKEN, END_TOKEN, g)]
    /\ pc' = "scored"
    /\ UNCHANGED <<variant, sm_states, sm, sm_lookup, sessions, counts, probs, gp>>

NextScore ==
    \/ ComputeCountsOnly
    \/ ComputeCountsValues
    \/ ComputeCmdsProbs
    \/ ComputeParamsProbs
    \/ ComputeValuesProbs
    \/ ProbSetOfParamsOnly
    \/ ProbSetOfParamsValues
    \/ LikelihoodWindow
    \/ LikelihoodWindowsInSession
    \/ RarestWindowSession

SpecScore == InitScore /\ [][NextScore]_vars

----------------------------------------------------------------------------
(* cmds_params_values.get_params_to_model_values: the rough heuristic that *)
(* picks the parameters whose values are categorical.                      *)

\* the numbers of the heuristic
MaxDistinctValues == 20
MinParamCount == 20
MaxFillRatio == 10
Percent == 100

\* (param, len(vals), param_counts[param], 100 * len(vals) / param_counts[param])
param_stats(param_counts, param_value_counts) ==
    [param \in Keys(param_value_counts.states) |->
        [d |-> Cardinality(Keys(param_value_counts.states[param])),
         n |-> GetItem(param_counts.states, param_counts.unk_token, param)]]

IsModellableMutStrict(stat) ==
    /\ stat.d < MaxDistinctValues
    /\ stat.n >= MinParamCount
    /\ Percent * stat.d <= MaxFillRatio * stat.n

\* if param[1] <= 20 and param[2] >= 20 and param[3] <= 10; the quotient
\* 100 * d / n is at most 10 exactly when 100 * d is at most 10 * n
IsModellable(stat) ==
    /\ stat.d <= MaxDistinctValues
    /\ stat.n >= MinParamCount
    /\ Percent * stat.d <= MaxFillRatio * stat.n

get_params_to_model_values(param_counts, param_value_counts) ==
    { param \in Keys(param_value_counts.states) :
        IsModellable(param_stats(param_counts, param_value_counts)[param]) }

\* how far around the numbers of the heuristic the inputs are drawn
MaxSlack == 1

GpDistinct ==
    {1, 2, 3} \cup ((MaxDistinctValues - MaxSlack)..(MaxDistinctValues + MaxSlack))

GpCounts ==
    ((MinParamCount - MaxSlack)..(MinParamCount + MaxSlack))
       \cup { MaxFillRatio * d : d \in GpDistinct }
       \cup { MaxFillRatio * d - 1 : d \in GpDistinct }

\* a parameter seen at least once for each of its values
GpShapes == { s \in GpDistinct \X GpCounts : s[2] >= s[1] }

\* a row of d entries as the counting pass leaves it: the unknown token
\* with count 1 and d - 1 values seen at least once
GpRow(d) ==
    [v \in {UNK_TOKEN} \cup { ToString(i) : i \in 1..(d - 1) } |->
        IF v = UNK_TOKEN THEN 1 ELSE 2]

GpParamCounts(sp, sq, nu) ==
    StateMatrix(FALSE,
                [param \in {"p", "q", UNK_TOKEN} |->
                    IF param = "p" THEN sp[2] ELSE IF param = "q" THEN sq[2] ELSE nu],
                UNK_TOKEN)

GpParamValueCounts(sp, sq) ==
    StateMatrix(TRUE,
                [param \in {"p", "q", UNK_TOKEN} |->
                    IF param = "p" THEN GpRow(sp[1])
                    ELSE IF param = "q" THEN GpRow(sq[1]) ELSE GpRow(1)],
                UNK_TOKEN)

InitGp ==
    /\ pc = "gp_input"
    /\ variant = "values"
    /\ sm_states = EmptyDict
    /\ sm = NoTable
    /\ sm_lookup = NoLookup
    /\ sessions = <<>>
    /\ counts = NoCounts
    /\ probs = NoProbsYet
    /\ call = NoCall
    /\ \E sp \in GpShapes, sq \in GpShapes, nu \in {MinParamCount - 1, MinParamCount} :
          gp = [made |-> FALSE,
                param_counts |-> GpParamCounts(sp, sq, nu),
                param_value_counts |-> GpParamValueCounts(sp, sq)]

GetParamsToModelValues ==
    /\ pc = "gp_input"
    /\ pc' = "gp_done"
    /\ gp' = [made |-> TRUE,
              param_counts |-> gp.param_counts,
              param_value_counts |-> gp.param_value_counts,
              result |-> get_params_to_model_values(gp.param_counts,
                                                    gp.param_value_counts)]
    /\ UNCHANGED <<variant, sm_states, sm, sm_lookup, sessions, counts, probs, call>>

NextGp == GetParamsToModelValues

SpecGp == InitGp /\ [][NextGp]_vars

----------------------------------------------------------------------------
(* compute_prob_setofparams_given_cmd on tables handed as plain dicts      *)
(* (param_cond_cmd_probs: Union[StateMatrix, dict]): the row of a command  *)
(* may then hold any parameters, or none.                                  *)

\* a dict handed where a table is expected; the calls made on it look up
\* only keys it holds, for which a dict and a StateMatrix answer alike
DictTable(states) ==
    [err |-> FALSE, nested |-> TRUE, states |-> states, unk_token |-> UNK_TOKEN]

RowParams == {"p", "q", "r"}

\* the rows param_cond_cmd_probs["A"] of the calls, the empty row included
RowChoices == Dicts({"p", "q"}, {Frac(1, 2), Frac(1, 3)})

\* value_cond_param_probs of the calls: every parameter with the value "x"
RowValueProbs ==
    DictTable([q \in RowParams |->
                 [v \in {"x"} |-> IF q = "p" THEN Frac(1, 2)
                                  ELSE IF q = "q" THEN Frac(1, 3) ELSE Frac(1, 5)]])

InitRows ==
    /\ pc = "rows_input"
    /\ variant \in {"only", "values"}
    /\ sm_states = EmptyDict
    /\ sm = NoTable
    /\ sm_lookup = NoLookup
    /\ sessions = <<>>
    /\ counts = NoCounts
    /\ \E ref \in RowChoices :
          probs = [cmds |-> NoDerived,
                   params |-> [made |-> TRUE, err |-> FALSE, single |-> NoTable,
                               joint |-> DictTable([c \in {"A"} |-> ref])],
                   values |-> [made |-> TRUE, err |-> FALSE, single |-> NoTable,
                               joint |-> RowValueProbs]]
    /\ gp = NoGp
    /\ call = NoCall

\* cmds_params_only.compute_prob_setofparams_given_cmd("A", params, {"A": ref}, g)
RowProbOnly ==
    /\ pc = "rows_input"
    /\ variant = "only"
    /\ \E P \in SUBSET RowParams, g \in BOOLEAN :
         call' = [fn |-> "compute_prob_setofparams_given_cmd",
                  cmd |-> Cmd("A", [q \in P |-> "x"]), modellable |-> {},
                  use_geo_mean |-> g,
                  result |-> compute_prob_setofparams_given_cmd_only(
                                 "A", P, probs.params.joint, g)]
    /\ pc' = "scored"
    /\ UNCHANGED <<variant, sm_states, sm, sm_lookup, sessions, counts, probs, gp>>

\* cmds_params_values.compute_prob_setofparams_given_cmd("A", params_with_vals,
\* {"A": ref}, value_cond_param_probs, modellable_params, g)
RowProbValues ==
    /\ pc = "rows_input"
    /\ variant = "values"
    /\ \E P \in SUBSET RowParams, g \in BOOLEAN, m \in {{}, {"p"}, {"p", "r"}} :
         call' = [fn |-> "compute_prob_setofparams_given_cmd",
                  cmd |-> Cmd("A", [q \in P |-> "x"]), modellable |-> m,
                  use_geo_mean |-> g,
                  result |-> compute_prob_setofparams_given_cmd_values(
                                 "A", [q \in P |-> "x"], probs.params.joint,
                                 probs.values.joint, m, g)]
    /\ pc' = "scored"
    /\ UNCHANGED <<variant, sm_states, sm, sm_lookup, sessions, counts, probs, gp>>

NextRows == RowProbOnly \/ RowProbValues

SpecRows == InitRows /\ [][NextRows]_vars

----------------------------------------------------------------------------
(* Scoring calls whose start_token and end_token may be left at their      *)
(* default None.                                                           *)

\* longest window or session of these calls
MaxTokenLen == 1

TokenSessions == SeqsUpTo(ScoreCmds, MaxTokenLen)

\* compute_likelihood_window(window, ..., use_start_token, use_end_token,
\*                           start_token, end_token)
LikelihoodWindowTokens ==
    /\ pc = "trained"
    /\ \E w \in TokenSessions, us \in BOOLEAN, ue \in BOOLEAN, m \in ModellableChoices,
          st \in {START_TOKEN, None}, et \in {END_TOKEN, None} :
         call' = [fn |-> "compute_likelihood_window",
                  window |-> w, modellable |-> m,
                  use_start_token |-> us, use_end_token |-> ue,
                  window_after |-> w,
                  start_token |-> st, end_token |-> et,
                  result |-> compute_likelihood_window(w, Model(m), us, ue, st, et)]
    /\ pc' = "scored"
    /\ UNCHANGED <<variant, sm_states, sm, sm_lookup, sessions, counts, probs, gp>>

\* compute_likelihood_windows_in_session(session, ..., window_len,
\*     use_start_end_tokens, start_token, end_token, use_geo_mean)
LikelihoodWindowsInSessionTokens ==
    /\ pc = "trained"
    /\ \E x \in TokenSessions, w \in 1..MaxWindowLen, se \in BOOLEAN, g \in BOOLEAN,
          m \in ModellableChoices,
          st \in {START_TOKEN, None}, et \in {END_TOKEN, None} :
         call' = [fn |-> "compute_likelihood_windows_in_session",
                  session |-> x, modellable |-> m, window_len |-> w,
                  use_start_end_tokens |-> se, use_geo_mean |-> g,
                  session_after |-> IF se /\ (st = None \/ et = None) THEN x
                                    ELSE SessionAfter(x, se, et),
                  start_token |-> st, end_token |-> et,
                  result |-> compute_likelihood_windows_in_session(
                                 x, Model(m), w, se, st, et, g)]
    /\ pc' = "scored"
    /\ UNCHANGED <<variant, sm_states, sm, sm_lookup, sessions, counts, probs, gp>>

NextTokens ==
    \/ ComputeCountsOnly
    \/ ComputeCountsValues
    \/ ComputeCmdsProbs
    \/ ComputeParamsProbs
    \/ ComputeValuesProbs
    \/ LikelihoodWindowTokens
    \/ LikelihoodWindowsInSessionTokens

SpecTokens == InitScore /\ [][NextTokens]_vars

----------------------------------------------------------------------------
(* Two calls of rarest_window_session on the same trained tables, taken    *)
(* one loop turn at a time in any order.  Each call has its own session,   *)
(* loop index i, list likelihoods and result; the tables are shared.       *)
MaxPairLen == 2

PairCmds == { Cmd("A", EmptyDict), Cmd("B", [p \in {"q"} |-> "x"]) }

PairSessions == SeqsUpTo(PairCmds, MaxPairLen)

PairModellable == IF variant = "values" THEN {"q"} ELSE {}

\* the tables are trained on the corpus whose commands carry parameters
PairCorpora ==
    {c \in ScoreCorpora :
        \E n \in 1..Len(c) : \E k \in 1..Len(c[n]) : c[n][k].params # EmptyDict}

InitPair ==
    /\ pc = "train_input"
    /\ variant \in {"only", "values"}
    /\ sm_states = [nested |-> FALSE, states |-> EmptyDict]
    /\ sm = NoTable
    /\ sm_lookup = NoLookup
    /\ sessions \in PairCorpora
    /\ counts = NoCounts
    /\ probs = NoProbsYet
    /\ gp = NoGp
    /\ call = NoCall

\* the frame of a call that has just been entered: likelihoods = []
NewCall(session) ==
    [session |-> session, i |-> 0, likelihoods |-> <<>>, stage |-> "loop",
     result |-> None]

\* a call that has taken a loop turn and has not returned
MidCall(proc) == proc.stage = "loop" /\ proc.i > 0

StartPair ==
    /\ pc = "trained"
    /\ \E x1 \in PairSessions, x2 \in PairSessions, w \in 1..MaxPairLen,
          se \in BOOLEAN :
         call' = [fn |-> "pair", window_len |-> w, use_start_end_tokens |-> se,
                  modellable |-> PairModellable, interleaved |-> FALSE,
                  procs |-> <<NewCall(x1), NewCall(x2)>>]
    /\ pc' = "pair"
    /\ UNCHANGED <<variant, sm_states, sm, sm_lookup, sessions, counts, probs, gp>>

OwnLikelihoodsMutShared(procs, p) == procs[1].likelihoods

\* likelihoods is a local of compute_likelihood_windows_in_session: every
\* call appends to the list it created
OwnLikelihoods(procs, p) == procs[p].likelihoods

\* end + 1, the number of turns of "for i in range(end + 1)"
WindowTurns(session, window_len, use_start_end_tokens) ==
    Len(Extended(session, use_start_end_tokens, END_TOKEN)) - window_len + 1

\* one turn of the loop: the likelihood of sess[i: i + window_len]
WindowTurn(session, M, window_len, use_start_end_tokens, i) ==
    GeoWindow(compute_likelihood_window(
                  PySlice(Extended(session, use_start_end_tokens, END_TOKEN),
                          i, i + window_len), M,
                  IF i = 0 THEN use_start_end_tokens ELSE FALSE, FALSE,
                  START_TOKEN, END_TOKEN),
              window_len, FALSE)

\* call p takes one turn of its loop: likelihoods.append(lik)
PairIterate(p) ==
    /\ pc = "pair"
    /\ call.procs[p].stage = "loop"
    /\ call.procs[p].i < WindowTurns(call.procs[p].session, call.window_len,
                                     call.use_start_end_tokens)
    /\ call' = [call EXCEPT
                 !.procs[p].likelihoods =
                     Append(OwnLikelihoods(call.procs, p),
                            WindowTurn(call.procs[p].session, Model(call.modellable),
                                       call.window_len, call.use_start_end_tokens,
                                       call.procs[p].i)),
                 !.procs[p].i = @ + 1,
                 !.interleaved = @ \/ MidCall(call.procs[3 - p])]
    /\ UNCHANGED <<pc, variant, sm_states, sm, sm_lookup, sessions, counts, probs, gp>>

\* call p leaves the loop: min, index and the slice of its session
PairReturn(p) ==
    /\ pc = "pair"
    /\ call.procs[p].stage = "loop"
    /\ call.procs[p].i >= WindowTurns(call.procs[p].session, call.window_len,
                                      call.use_start_end_tokens)
    /\ call' = [call EXCEPT
                 !.procs[p].stage = "done",
                 !.procs[p].result =
                     RarestOf(call.procs[p].session, call.window_len,
                              [raised |-> FALSE,
                               likelihoods |-> OwnLikelihoods(call.procs, p)]),
                 !.interleaved = @ \/ MidCall(call.procs[3 - p])]
    /\ UNCHANGED <<pc, variant, sm_states, sm, sm_lookup, sessions, counts, probs, gp>>

NextPair ==
    \/ ComputeCountsOnly
    \/ ComputeCountsValues
    \/ ComputeCmdsProbs
    \/ ComputeParamsProbs
    \/ ComputeValuesProbs
    \/ StartPair
    \/ \E p \in {1, 2} : PairIterate(p)
    \/ \E p \in {1, 2} : PairReturn(p)

SpecPair == InitPair /\ [][NextPair]_vars

----------------------------------------------------------------------------
(* C1: constructing a StateMatrix fails when the mapping is empty, when    *)
(* the unknown token is not a top-level key, or when the table is nested   *)
(* and some second-level mapping (the one under the unknown token          *)
(* included) lacks the unknown token; it succeeds in no such case.         *)
C1_BadMapping ==
    \/ Keys(sm_states.states) = {}
    \/ UNK_TOKEN \notin Keys(sm_states.states)
    \/ /\ sm_states.nested
       /\ \E k \in Keys(sm_states.states) : UNK_TOKEN \notin Keys(sm_states.states[k])

C1_ConstructionFails ==
    (pc # "sm_input" /\ C1_BadMapping) => (pc = "sm_failed" /\ sm.err)

\* the third case of the test: the row under the unknown token lacks it
C1_Witness ==
    /\ pc = "sm_failed"
    /\ sm_states.nested
    /\ UNK_TOKEN \in Keys(sm_states.states)
    /\ UNK_TOKEN \notin Keys(sm_states.states[UNK_TOKEN])
    /\ \A k \in Keys(sm_states.states) \ {UNK_TOKEN} :
          UNK_TOKEN \in Keys(sm_states.states[k])

(* C2: on a valid table a present key returns its stored value, an absent  *)
(* key returns the value under the unknown token, level by level, and a    *)
(* lookup leaves the table's keys and values as they were.                 *)
C2_Expected1(k) ==
    IF k \in Keys(sm_states.states) THEN sm_states.states[k]
    ELSE sm_states.states[UNK_TOKEN]

C2_Expected2(k1, k2) ==
    LET S == sm_states.states
        r == IF k1 \in Keys(S) THEN k1 ELSE UNK_TOKEN
        c == IF k2 \in Keys(S[r]) THEN k2 ELSE UNK_TOKEN
    IN S[r][c]

C2_Fallback ==
    sm_lookup.made =>
       /\ sm.states = sm_states.states
       /\ IF sm.nested
            THEN sm_lookup.value = C2_Expected2(sm_lookup.keys[1], sm_lookup.keys[2])
            ELSE sm_lookup.value = C2_Expected1(sm_lookup.keys[1])

\* k1 absent, k2 present in the unknown token's row but with another value
\* than the one stored under the unknown token there
C2_Witness ==
    /\ sm_lookup.made
    /\ sm.nested
    /\ sm_lookup.keys[1] \notin Keys(sm.states)
    /\ sm_lookup.keys[2] \in Keys(sm.states[UNK_TOKEN]) \ {UNK_TOKEN}
    /\ sm_lookup.value # sm.states[UNK_TOKEN][UNK_TOKEN]
    /\ sm_lookup.value = sm.states[UNK_TOKEN][sm_lookup.keys[2]]

----------------------------------------------------------------------------
(* The training input, read independently of the tables built from it.     *)
RECURSIVE NamesIn(_)
NamesIn(sess) ==
    IF sess = <<>> THEN {}
    ELSE {Head(sess)[i].name : i \in 1..Len(Head(sess))} \cup NamesIn(Tail(sess))

\* the command vocabulary of a corpus: the names it holds, the start and
\* end tokens once a session registered them, and the unknown token
Vocabulary(sess) ==
    NamesIn(sess) \cup (IF sess = <<>> THEN {} ELSE {START_TOKEN, END_TOKEN})
                  \cup {UNK_TOKEN}

\* number of times b directly follows a in the corpus, sessions being read
\* with the start token before and the end token after them
RECURSIVE Adjacent(_, _, _)
Adjacent(sess, a, b) ==
    IF sess = <<>> THEN 0
    ELSE LET names == <<START_TOKEN>> \o [i \in 1..Len(Head(sess)) |-> Head(sess)[i].name]
                        \o <<END_TOKEN>>
         IN Cardinality({i \in 1..(Len(names) - 1) : names[i] = a /\ names[i + 1] = b})
            + Adjacent(Tail(sess), a, b)

Counted == counts.made /\ ~counts.err

(* C7: after compute_counts every ordered pair (c1, c2) of the command     *)
(* vocabulary (observed names plus the unknown token) with c1 not the end  *)
(* token and c2 not the start token has a bigram count of at least 1.      *)
C7_SmoothingCoverage ==
    counts.made =>
      /\ ~counts.err
      /\ \A c1, c2 \in Vocabulary(sessions) :
            (c1 # END_TOKEN /\ c2 # START_TOKEN) =>
               /\ c1 \in Keys(counts.seq2_counts.states)
               /\ c2 \in Keys(counts.seq2_counts.states[c1])
               /\ counts.seq2_counts.states[c1][c2] >= 1

\* a pair that never occurs in training and is counted once: B then A, and
\* the start token before the unknown token
C7_Witness ==
    /\ Counted
    /\ {"A", "B"} \subseteq NamesIn(sessions)
    /\ Adjacent(sessions, "B", "A") = 0
    /\ counts.seq2_counts.states["B"]["A"] = 1
    /\ counts.seq2_counts.states[START_TOKEN][UNK_TOKEN] = 1

(* C8: probability derivation is exact normalisation: every unigram        *)
(* probability is count(k) over the sum of the unigram counts, every       *)
(* conditional probability is count(a,b) over the sum of row a, and so     *)
(* the unigram table and every row sum to exactly 1.                       *)
C8_ExactFlat(cnt, prb) ==
    /\ Keys(prb) = Keys(cnt)
    /\ \A k \in Keys(cnt) : prb[k].n * SumValues(cnt) = cnt[k] * prb[k].d
    /\ FracSumOver(prb, Keys(prb)) = FracOne

C8_ExactRows(cnt, prb) ==
    /\ Keys(prb) = Keys(cnt)
    /\ \A a \in Keys(cnt) : C8_ExactFlat(cnt[a], prb[a])

C8_Exact(d, single, joint) ==
    (d.made /\ ~d.err) =>
        /\ C8_ExactFlat(single.states, d.single.states)
        /\ C8_ExactRows(joint.states, d.joint.states)

C8_ExactNormalisation ==
    /\ C8_Exact(probs.cmds, counts.seq1_counts, counts.seq2_counts)
    /\ C8_Exact(probs.params, counts.param_counts, counts.cmd_param_counts)
    /\ C8_Exact(probs.values, counts.value_counts, counts.param_value_counts)

\* all three derivations done, on rows whose entries differ
C8_Witness ==
    /\ pc = "trained"
    /\ variant = "values"
    /\ probs.cmds.made /\ probs.params.made /\ probs.values.made
    /\ "A" \in Keys(probs.cmds.joint.states)
    /\ probs.cmds.joint.states["A"]["A"] # probs.cmds.joint.states["A"][UNK_TOKEN]
    /\ "p" \in Keys(probs.values.joint.states)
    /\ Cardinality(Keys(probs.values.joint.states["p"])) = 3
    /\ "A" \in Keys(probs.params.joint.states)
    /\ Cardinality({probs.params.joint.states["A"][q] :
                        q \in Keys(probs.params.joint.states["A"])}) >= 2

----------------------------------------------------------------------------
(* The arguments of the last scoring call, handed again to the functions.  *)
CallModel == Model(call.modellable)

CallLikelihoods ==
    compute_likelihood_windows_in_session(
        call.session, CallModel, call.window_len, call.use_start_end_tokens,
        START_TOKEN, END_TOKEN, call.use_geo_mean).likelihoods

IsRarestCall == call.fn = "rarest_window_session"

IsWindowCall == call.fn = "compute_likelihood_window"

IsParamsCall == call.fn = "compute_prob_setofparams_given_cmd"

(* C3: when the session has at least one window, rarest_window_session     *)
(* returns the least of the window likelihoods, and the position it        *)
(* selects is the first one holding that least likelihood.                 *)
C3_FirstMinimum(L, r) ==
    Len(L) > 0 =>
       /\ ~r.raised
       /\ \A n \in 1..Len(L) : ~Less(L[n], r.lik)
       /\ r.ind + 1 \in 1..Len(L)
       /\ L[r.ind + 1] = r.lik
       /\ \A n \in 1..r.ind : L[n] # r.lik

C3_RarestIsFirstMinimum ==
    IsRarestCall => C3_FirstMinimum(CallLikelihoods, call.result)

\* the least likelihood is positive, is met at two positions, and is not
\* at the first position
C3_WitnessOn(L, r) ==
    /\ Len(L) >= 3
    /\ r.lik.kind = "pos"
    /\ r.ind >= 1
    /\ \E n \in (r.ind + 2)..Len(L) : L[n] = r.lik
    /\ Less(r.lik, L[1])

C3_Witness == IsRarestCall /\ C3_WitnessOn(CallLikelihoods, call.result)

(* C4 as stated: for either setting of use_start_end_tokens, a session     *)
(* with fewer than window_len commands (the empty one included) gets an    *)
(* empty window and a NaN likelihood.                                      *)
C4_Original ==
    (IsRarestCall /\ Len(call.session) < call.window_len) =>
        (call.result.window = <<>> /\ call.result.lik = NaN)

(* C4, amended: the empty window and the NaN likelihood are returned when  *)
(* the session, counted with the end-token command that is appended to it  *)
(* when use_start_end_tokens is set, has fewer than window_len commands.   *)
C4_ShortSession ==
    (IsRarestCall
       /\ Len(call.session) + (IF call.use_start_end_tokens THEN 1 ELSE 0)
             < call.window_len) =>
        (call.result.window = <<>> /\ call.result.lik = NaN)

C4_Witness ==
    /\ IsRarestCall
    /\ call.use_start_end_tokens
    /\ Len(call.session) = 1
    /\ call.window_len = 3
    /\ call.result.window = <<>>
    /\ call.result.lik = NaN

(* C5: the likelihood of a window c0 .. c(n-1) is the factor of c0 (start  *)
(* transition or prior, times its parameter-set likelihood) times, for     *)
(* every j in 1..n-1, trans[c(j-1)][c(j)] and the parameter-set likelihood *)
(* of c(j).  Stated for calls without the end token.                       *)
RECURSIVE C5_Pairs(_, _, _)
C5_Pairs(window, M, j) ==
    IF j > Len(window) THEN One
    ELSE Times(Times(Prob2(M.trans_probs, window[j - 1].name, window[j].name),
                     ParamLikelihood(M, window[j])),
               C5_Pairs(window, M, j + 1))

C5_Product(window, M, use_start_token) ==
    Times(FirstFactor(window, M, use_start_token, START_TOKEN),
          C5_Pairs(window, M, 2))

C5_WindowProduct ==
    (IsWindowCall /\ Len(call.window) >= 1 /\ ~call.use_end_token) =>
        call.result = C5_Product(call.window, CallModel, call.use_start_token)

(* C6: with use_end_token the factor multiplied in is the transition       *)
(* probability from the last command of the window to the end token.       *)
C6_EndFactor ==
    (IsWindowCall /\ Len(call.window) >= 1 /\ call.use_end_token) =>
        call.result =
            Times(compute_likelihood_window(call.window, CallModel,
                                            call.use_start_token, FALSE,
                                            START_TOKEN, END_TOKEN),
                  Prob2(CallModel.trans_probs, call.window[Len(call.window)].name,
                        END_TOKEN))

(* C9 as stated: 1 for an empty parameter set; otherwise the result before *)
(* normalisation is the product, over the parameters q of the row ref      *)
(* looked up for the command, of ref[q] when q is in P and of 1 - ref[q]   *)
(* when it is not, one factor for each key of ref.                         *)
C9_Ref == GetItem(probs.params.joint.states, UNK_TOKEN, call.cmd.name)

RECURSIVE C9_Presence(_, _, _)
C9_Presence(ref, P, todo) ==
    IF todo = {} THEN One
    ELSE LET q == CHOOSE x \in todo : TRUE
         IN Mul(FromFrac(IF q \in P THEN ref[q] ELSE Frac(ref[q].d - ref[q].n, ref[q].d)),
                C9_Presence(ref, P, todo \ {q}))

C9_Original ==
    IsParamsCall =>
        IF Keys(call.cmd.params) = {}
          THEN call.result = One
          ELSE ~call.use_geo_mean =>
                  call.result = C9_Presence(C9_Ref, Keys(call.cmd.params), Keys(C9_Ref))

(* C9, amended: in the value-aware variant the product holds one more      *)
(* factor, value_cond_param_probs[q][P[q]], for each q of ref that is in P *)
(* and in modellable_params.                                               *)
RECURSIVE C9_ValueFactors(_, _)
C9_ValueFactors(P, todo) ==
    IF todo = {} THEN One
    ELSE LET q == CHOOSE x \in todo : TRUE
         IN Mul(Prob2(probs.values.joint, q, P[q]), C9_ValueFactors(P, todo \ {q}))

C9_ValueParams == Keys(C9_Ref) \cap Keys(call.cmd.params) \cap call.modellable

C9_ParamSetLikelihood ==
    IsParamsCall =>
        IF Keys(call.cmd.params) = {}
          THEN call.result = One
          ELSE ~call.use_geo_mean =>
                  call.result = Mul(C9_Presence(C9_Ref, Keys(call.cmd.params), Keys(C9_Ref)),
                                    C9_ValueFactors(call.cmd.params, C9_ValueParams))

\* a value-aware call with a modelled value, on a row of three parameters
\* of which one is in P
C9_Witness ==
    /\ IsParamsCall
    /\ variant = "values"
    /\ ~call.use_geo_mean
    /\ Cardinality(Keys(C9_Ref)) = 3
    /\ Cardinality(Keys(C9_Ref) \cap Keys(call.cmd.params)) = 1
    /\ C9_ValueParams # {}
    /\ call.result.kind = "pos"

(* C10: get_params_to_model_values returns exactly the parameters p with  *)
(* d <= 20 and n >= 20 and 100 * d / n <= 10, d being the number of values *)
(* recorded for p and n the count recorded for p; a parameter failing any  *)
(* of the three is left out and one meeting all three is returned.         *)
C10_Distinct(p) == Cardinality(DOMAIN gp.param_value_counts.states[p])

C10_Count(p) == gp.param_counts.states[p]

C10_Ratio10(p) ==
    \/ (100 * C10_Distinct(p)) \div C10_Count(p) < 10
    \/ 100 * C10_Distinct(p) = 10 * C10_Count(p)

C10_Meets(p) == C10_Distinct(p) <= 20 /\ C10_Count(p) >= 20 /\ C10_Ratio10(p)

IsWindowsCall == call.fn = "compute_likelihood_windows_in_session"

C11_Sequence ==
    IF call.use_start_end_tokens
      THEN call.session \o << [name |-> END_TOKEN, params |-> <<>>] >>
      ELSE call.session

C11_Count ==
    IF Len(C11_Sequence) - call.window_len + 1 > 0
      THEN Len(C11_Sequence) - call.window_len + 1
      ELSE 0

C11_Normalised(lik) ==
    IF call.use_geo_mean THEN Root(lik, call.window_len) ELSE lik

C11_WindowAt(n) ==
    C11_Normalised(compute_likelihood_window(
        SubSeq(C11_Sequence, n, n + call.window_len - 1), CallModel,
        n = 1 /\ call.use_start_end_tokens, FALSE, START_TOKEN, END_TOKEN))

C11_SlidingWindows ==
    IsWindowsCall =>
       /\ ~call.result.raised
       /\ Len(call.result.likelihoods) = C11_Count
       /\ \A n \in 1..C11_Count : call.result.likelihoods[n] = C11_WindowAt(n)

\* three windows of two over a session of three and the end-token command
C11_Witness ==
    /\ IsWindowsCall
    /\ call.use_start_end_tokens
    /\ call.window_len = 2
    /\ Len(call.session) = 3
    /\ Len(call.result.likelihoods) = 3
    /\ call.result.likelihoods[2].kind = "pos"

(* C12: in both variants, when the geometric mean is requested for a       *)
(* non-empty parameter set and the row looked up for the command holds no  *)
(* parameters (k = 0), compute_prob_setofparams_given_cmd skips the        *)
(* normalisation and returns the product, here the empty product 1; it     *)
(* raises no division by zero.                                             *)
C12_EmptyRowCall ==
    /\ IsParamsCall
    /\ call.use_geo_mean
    /\ Keys(call.cmd.params) # {}
    /\ Keys(C9_Ref) = {}

C12_NoZeroDivision ==
    C12_EmptyRowCall =>
        (call.result.kind # "ZeroDivisionError" /\ call.result = One)

(* C13: compute_likelihood_window fails with an assertion exactly when     *)
(* use_start_token is set and start_token is None, or use_end_token is set *)
(* and end_token is None; compute_likelihood_windows_in_session exactly    *)
(* when use_start_end_tokens is set and either token is None.  The failure *)
(* comes before any likelihood is computed, the empty window or session    *)
(* included; with the flags off a None token makes no call fail.           *)
C13_WindowMustFail ==
    \/ call.use_start_token /\ call.start_token = None
    \/ call.use_end_token /\ call.end_token = None

C13_SessionMustFail ==
    call.use_start_end_tokens /\ (call.start_token = None \/ call.end_token = None)

C13_TokenAsserts ==
    /\ IsWindowCall =>
          IF C13_WindowMustFail
            THEN call.result.kind = "AssertionError"
            ELSE call.result.kind \in {"nan", "zero", "pos"}
    /\ IsWindowsCall =>
          IF C13_SessionMustFail
            THEN call.result.raised /\ call.result.likelihoods = <<>>
            ELSE ~call.result.raised

\* the empty window with the end token requested and not supplied
C13_Witness ==
    /\ IsWindowCall
    /\ call.window = <<>>
    /\ ~call.use_start_token
    /\ call.use_end_token
    /\ call.end_token = None
    /\ call.result.kind = "AssertionError"

(* C14 as stated: compute_counts on the empty list of sessions completes   *)
(* without error and the keys of the unigram command table are exactly     *)
(* the start token, the end token and the unknown token.                   *)
C14_Original ==
    (counts.made /\ sessions = <<>>) =>
       /\ ~counts.err
       /\ Keys(counts.seq1_counts.states) = {START_TOKEN, END_TOKEN, UNK_TOKEN}

(* C14, amended: on the empty list compute_counts completes without error  *)
(* and the keys of the unigram command table are the unknown token alone;  *)
(* the start and end tokens are keys as soon as the list holds a session,  *)
(* be it an empty one.                                                     *)
C14_EmptyVocabulary ==
    counts.made =>
       /\ ~counts.err
       /\ sessions = <<>> => Keys(counts.seq1_counts.states) = {UNK_TOKEN}
       /\ (sessions # <<>> /\ NamesIn(sessions) = {}) =>
              Keys(counts.seq1_counts.states) = {START_TOKEN, END_TOKEN, UNK_TOKEN}

\* the empty list: the pair (unknown, unknown) is the only one smoothed
C14_Witness ==
    /\ counts.made
    /\ sessions = <<>>
    /\ counts.seq1_counts.states = [k \in {UNK_TOKEN} |-> 2]
    /\ counts.seq2_counts.states = [k \in {UNK_TOKEN} |-> [j \in {UNK_TOKEN} |-> 1]]

(* C15: after compute_counts, for every command c of the vocabulary        *)
(* (observed names, start, end, unknown) the (command, parameter) row of c *)
(* holds exactly the parameters observed with c in training and the        *)
(* unknown token: an observed parameter with its number of co-occurrences  *)
(* plus 1, the unknown token with 1, and no entry for a parameter never    *)
(* observed with c.                                                        *)
RECURSIVE C15_Raw(_, _, _)
C15_Raw(sess, c, p) ==
    IF sess = <<>> THEN 0
    ELSE Cardinality({i \in 1..Len(Head(sess)) :
                         Head(sess)[i].name = c /\ p \in DOMAIN Head(sess)[i].params})
         + C15_Raw(Tail(sess), c, p)

C15_AllParams == UNION {DOMAIN cmd.params : cmd \in TrainCmds}

C15_Observed(c) == {p \in C15_AllParams : C15_Raw(sessions, c, p) > 0}

\* the row of c as a lookup in the returned table gives it
C15_Row(c) == GetItem(counts.cmd_param_counts.states, UNK_TOKEN, c)

C15_ParamRows ==
    counts.made =>
       /\ ~counts.err
       /\ \A c \in NamesIn(sessions) \cup {START_TOKEN, END_TOKEN, UNK_TOKEN} :
             /\ DOMAIN C15_Row(c) = C15_Observed(c) \cup {UNK_TOKEN}
             /\ C15_Row(c)[UNK_TOKEN] = 1
             /\ \A p \in C15_Observed(c) :
                    C15_Row(c)[p] = C15_Raw(sessions, c, p) + 1

\* p observed twice with A, q in the parameter vocabulary but never with A
C15_Witness ==
    /\ counts.made
    /\ C15_Raw(sessions, "A", "p") = 2
    /\ C15_Raw(sessions, "A", "q") = 0
    /\ C15_Raw(sessions, "B", "q") = 1
    /\ C15_Row("A") = [k \in {"p", UNK_TOKEN} |-> IF k = "p" THEN 3 ELSE 1]

(* C16: after training on [[A, B], [A, A]] (no parameters) the transition  *)
(* row of A holds entries for A, B, the end token and the unknown token,   *)
(* and they sum to 1; scoring the session [A, C] (C unseen) with window    *)
(* length 1 and without start and end tokens raises nothing and gives two  *)
(* likelihoods, the second being the prior stored under the unknown token. *)
C16_Trained ==
    sessions = << <<Cmd("A", EmptyDict), Cmd("B", EmptyDict)>>,
                  <<Cmd("A", EmptyDict), Cmd("A", EmptyDict)>> >>

C16_Scored ==
    /\ C16_Trained
    /\ IsWindowsCall
    /\ call.session = <<Cmd("A", EmptyDict), Cmd("C", EmptyDict)>>
    /\ call.window_len = 1
    /\ ~call.use_start_end_tokens

C16_EndToEnd ==
    /\ (C16_Trained /\ probs.cmds.made) =>
          /\ {"A", "B", END_TOKEN, UNK_TOKEN} \subseteq DOMAIN probs.cmds.joint.states["A"]
          /\ FracSumOver(probs.cmds.joint.states["A"], {"A", "B", END_TOKEN, UNK_TOKEN})
                = FracOne
    /\ C16_Scored =>
          /\ ~call.result.raised
          /\ Len(call.result.likelihoods) = 2
          /\ call.result.likelihoods[2] = FromFrac(probs.cmds.single.states[UNK_TOKEN])

\* the prior of the unknown token is 8 / 40 here, that of A is 11 / 40
C16_Witness ==
    /\ C16_Scored
    /\ call.result.likelihoods[1] = FromFrac(Frac(11, 40))
    /\ call.result.likelihoods[2] = FromFrac(Frac(1, 5))

(* C17: in the value-aware compute_prob_setofparams_given_cmd the factor   *)
(* value_cond_param_probs[q][P[q]] is multiplied in for exactly the        *)
(* parameters q that are in ref, in P and in the modellable set; with the  *)
(* geometric mean the exponent is 1 / k, k being the number of parameters  *)
(* of ref plus the number of those value factors.                          *)
C17_Product ==
    Mul(C9_Presence(C9_Ref, Keys(call.cmd.params), Keys(C9_Ref)),
        C9_ValueFactors(call.cmd.params, C9_ValueParams))

C17_K == Cardinality(Keys(C9_Ref)) + Cardinality(C9_ValueParams)

C17_ValueFactors ==
    (IsParamsCall /\ variant = "values" /\ Keys(call.cmd.params) # {}) =>
        call.result = IF call.use_geo_mean /\ C17_K > 0
                        THEN Root(C17_Product, C17_K)
                        ELSE C17_Product

\* ref holds p and q; P holds p and r, both modellable: one value factor,
\* for p, and the cube root
C17_Witness ==
    /\ IsParamsCall
    /\ variant = "values"
    /\ call.use_geo_mean
    /\ Keys(C9_Ref) = {"p", "q"}
    /\ Keys(call.cmd.params) = {"p", "r"}
    /\ call.modellable = {"p", "r"}
    /\ C17_K = 3
    /\ call.result = Root(C17_Product, 3)
    /\ call.result # C17_Product

(* C18: for every session and window length w >= 1, the list returned by   *)
(* compute_likelihood_windows_in_session with use_geo_mean = True is,      *)
(* position by position, the list returned with use_geo_mean = False with  *)
(* each element raised to the power 1 / w; the two lists have the same     *)
(* length.                                                                 *)
C18_Unnormalised ==
    compute_likelihood_windows_in_session(
        call.session, CallModel, call.window_len, call.use_start_end_tokens,
        START_TOKEN, END_TOKEN, FALSE)

C18_Roots(L, w) == [n \in 1..Len(L) |-> Root(L[n], w)]

C18_GeoMeanIsRoot ==
    (IsWindowsCall /\ call.use_geo_mean) =>
       /\ ~call.result.raised
       /\ call.result.likelihoods =
              C18_Roots(C18_Unnormalised.likelihoods, call.window_len)

\* two windows of three, the cube roots of likelihoods below 1
C18_Witness ==
    /\ IsWindowsCall
    /\ call.use_geo_mean
    /\ call.window_len = 3
    /\ Len(call.result.likelihoods) = 2
    /\ \A n \in 1..2 :
         /\ call.result.likelihoods[n].kind = "pos"
         /\ call.result.likelihoods[n] # C18_Unnormalised.likelihoods[n]
         /\ Less(C18_Unnormalised.likelihoods[n], call.result.likelihoods[n])

(* C19: scoring is side-effect free on its inputs: after a call to         *)
(* compute_likelihood_window, compute_likelihood_windows_in_session or     *)
(* rarest_window_session (either variant, any flags) the caller's session  *)
(* list holds the same commands in the same order (the end-token command   *)
(* is appended to a private copy only), and the probability tables and the *)
(* modellable-parameter set are unchanged.                                 *)
C19_CallerListKept ==
    /\ (IsWindowsCall \/ IsRarestCall) => call.session_after = call.session
    /\ IsWindowCall => call.window_after = call.window

C19_TablesKept ==
    (pc = "trained" /\ pc' = "scored") =>
        /\ probs' = probs
        /\ counts' = counts
        /\ sessions' = sessions
        /\ gp' = gp

C19_SideEffectFree == [](C19_CallerListKept) /\ [][C19_TablesKept]_vars

\* the end-token command was appended for the windows, and the caller's
\* list of two commands is as it was
C19_Witness ==
    /\ IsRarestCall
    /\ pc = "scored"
    /\ call.use_start_end_tokens
    /\ Len(call.session) = 2
    /\ Len(Extended(call.session, TRUE, END_TOKEN)) = 3
    /\ Len(CallLikelihoods) = 3 - call.window_len + 1
    /\ call.session_after = call.session

(* C20: two calls of rarest_window_session on independent sessions that    *)
(* share the same probability tables, their steps interleaved in any       *)
(* order and without locking, each return the (window, likelihood) pair    *)
(* the call returns when run alone.                                        *)
C20_Alone(p) ==
    rarest_window_session(call.procs[p].session, Model(call.modellable),
                          call.window_len, call.use_start_end_tokens,
                          START_TOKEN, END_TOKEN, FALSE)

C20_InterleavedAsAlone ==
    pc = "pair" =>
        \A p \in {1, 2} :
            call.procs[p].stage = "done" =>
                /\ call.procs[p].result.window = C20_Alone(p).window
                /\ call.procs[p].result.lik = C20_Alone(p).lik

\* both calls have returned after turns taken while the other was in its
\* loop; different sessions, two windows each, different rarest windows
C20_Witness ==
    /\ pc = "pair"
    /\ call.interleaved
    /\ \A p \in {1, 2} :
         /\ call.procs[p].stage = "done"
         /\ Len(call.procs[p].likelihoods) = 2
         /\ call.procs[p].result.lik.kind = "pos"
         /\ call.procs[p].result = C20_Alone(p)
    /\ call.procs[1].session # call.procs[2].session
    /\ call.procs[1].result.ind # call.procs[2].result.ind
    /\ call.procs[1].result.lik # call.procs[2].result.lik

(* C21: in the bigram count table returned by compute_counts and in the    *)
(* transition probability table derived from it, the end token is never a  *)
(* first-level (predecessor) key and the start token is never a            *)
(* second-level (successor) key of any row.                                *)
C21_Placed(table) ==
    /\ END_TOKEN \notin Keys(table)
    /\ \A a \in Keys(table) : START_TOKEN \notin Keys(table[a])

C21_SentinelPlacement ==
    /\ Counted => C21_Placed(counts.seq2_counts.states)
    /\ (probs.cmds.made /\ ~probs.cmds.err) => C21_Placed(probs.cmds.joint.states)

\* both tokens are in the vocabulary and in the table: the start token as
\* a predecessor, the end token as a successor
C21_Witness ==
    /\ Counted
    /\ probs.cmds.made
    /\ ~probs.cmds.err
    /\ Len(sessions) = 2
    /\ {START_TOKEN, END_TOKEN} \subseteq Keys(counts.seq1_counts.states)
    /\ START_TOKEN \in Keys(probs.cmds.joint.states)
    /\ \A a \in Keys(probs.cmds.joint.states) : END_TOKEN \in Keys(probs.cmds.joint.states[a])
    /\ C21_Placed(probs.cmds.joint.states)

(* C22: while a session is scored by compute_likelihood_windows_in_session *)
(* with use_start_end_tokens = True, every transition lookup trans[x][y]   *)
(* that is performed has x different from the end token.                   *)
C22_WindowPredecessors(window, use_start_token) ==
    (IF use_start_token THEN {START_TOKEN} ELSE {})
        \cup {LoopPrev(window, i).name : i \in 0..(Len(window) - 2)}

C22_Predecessors(sess, window_len) ==
    UNION {C22_WindowPredecessors(PySlice(sess, n - 1, n - 1 + window_len), n = 1) :
               n \in 1..(Len(sess) - window_len + 1)}

C22_EndNeverPredecessor ==
    (IsWindowsCall /\ call.use_start_end_tokens) =>
        END_TOKEN \notin C22_Predecessors(Extended(call.session, TRUE, END_TOKEN),
                                          call.window_len)

(* C23: whenever rarest_window_session returns a likelihood that is not    *)
(* NaN, for a window length w >= 1, the returned window is a contiguous    *)
(* sub-sequence of the session holding exactly w commands, and it is the   *)
(* sequence of commands whose likelihood was computed at the selected      *)
(* position (for either setting of use_start_end_tokens).                  *)
C23_ScoredWindow ==
    PySlice(Extended(call.session, call.use_start_end_tokens, END_TOKEN),
            call.result.ind, call.result.ind + call.window_len)

C23_ReturnedIsScored ==
    (IsRarestCall /\ ~call.result.raised /\ call.result.lik # NaN) =>
        /\ Len(call.result.window) = call.window_len
        /\ call.result.ind + call.window_len <= Len(call.session)
        /\ call.result.window =
               SubSeq(call.session, call.result.ind + 1,
                      call.result.ind + call.window_len)
        /\ call.result.window = C23_ScoredWindow

(* C24: over tables obtained by compute_counts and the probability         *)
(* derivation, the parameter-set likelihood of every command with a        *)
(* non-empty parameter set (a command or parameters never seen in training *)
(* included) is strictly greater than 0, and so is the likelihood of every *)
(* non-empty window.                                                       *)
C24_StrictlyPositive ==
    /\ (IsParamsCall /\ Keys(call.cmd.params) # {}) =>
           (call.result.kind = "pos" /\ Less(Zero, call.result))
    /\ (IsWindowCall /\ Len(call.window) >= 1) =>
           (call.result.kind = "pos" /\ Less(Zero, call.result))

(* C25: for every list of sessions (the empty list and lists with empty    *)
(* sessions included) every table built by compute_counts, in both         *)
(* variants, is non-empty and holds the unknown token at top level and in  *)
(* every second-level row, so construction never fails; every row of every *)
(* two-level count table has a strictly positive sum, so probability       *)
(* derivation never divides by zero.                                       *)
C25_FlatOk(t) == Keys(t) # {} /\ UNK_TOKEN \in Keys(t)

C25_RowsOk(t) ==
    /\ C25_FlatOk(t)
    /\ \A a \in Keys(t) :
         /\ UNK_TOKEN \in Keys(t[a])
         /\ SumOver(t[a], Keys(t[a])) > 0
         /\ \A b \in Keys(t[a]) : t[a][b] >= 1

C25_ValueTablesOk ==
    variant = "values" =>
        /\ C25_FlatOk(counts.value_counts.states)
        /\ C25_RowsOk(counts.param_value_counts.states)

C25_Derived(p) == p.made => ~p.err

C25_TablesWellFormed ==
    /\ counts.made =>
         /\ ~counts.err
         /\ C25_FlatOk(counts.seq1_counts.states)
         /\ C25_RowsOk(counts.seq2_counts.states)
         /\ C25_FlatOk(counts.param_counts.states)
         /\ C25_RowsOk(counts.cmd_param_counts.states)
         /\ C25_ValueTablesOk
    /\ C25_Derived(probs.cmds)
    /\ C25_Derived(probs.params)
    /\ C25_Derived(probs.values)

\* the empty list of sessions, value-aware variant, through to the last
\* derivation
C25_Witness ==
    /\ sessions = <<>>
    /\ variant = "values"
    /\ pc = "trained"
    /\ probs.values.made
    /\ ~probs.values.err
    /\ Keys(counts.param_value_counts.states) = {UNK_TOKEN}
    /\ counts.param_value_counts.states[UNK_TOKEN][UNK_TOKEN] = 1

(* C26: after compute_counts the bigram count of every valid pair          *)
(* (c1, c2) of the vocabulary (c1 not the end token, c2 not the start      *)
(* token) is its number of adjacent occurrences in training (start token   *)
(* before each session, end token after it) plus 1, and the unigram count  *)
(* of every vocabulary entry c is its raw occurrence count plus the number *)
(* of valid pairs with c first plus the number of valid pairs with c       *)
(* second (the pair (c, c) adds 2).                                        *)
RECURSIVE C26_Occurrences(_, _)
C26_Occurrences(sess, c) ==
    IF sess = <<>> THEN 0
    ELSE Cardinality({i \in 1..Len(Head(sess)) : Head(sess)[i].name = c})
         + C26_Occurrences(Tail(sess), c)

C26_Raw(c) ==
    IF c \in {START_TOKEN, END_TOKEN} THEN Len(sessions)
    ELSE C26_Occurrences(sessions, c)

C26_Valid(c1, c2) == c1 # END_TOKEN /\ c2 # START_TOKEN

C26_AsFirst(c) == Cardinality({c2 \in Vocabulary(sessions) : C26_Valid(c, c2)})

C26_AsSecond(c) == Cardinality({c1 \in Vocabulary(sessions) : C26_Valid(c1, c)})

C26_SmoothedCounts ==
    Counted =>
      /\ \A c1, c2 \in Vocabulary(sessions) :
            C26_Valid(c1, c2) =>
                counts.seq2_counts.states[c1][c2] = Adjacent(sessions, c1, c2) + 1
      /\ \A c \in Vocabulary(sessions) :
            counts.seq1_counts.states[c] = C26_Raw(c) + C26_AsFirst(c) + C26_AsSecond(c)

\* A follows A once and is counted 2; A occurs twice among 5 entries of
\* the vocabulary: 2 + 4 + 4
C26_Witness ==
    /\ Counted
    /\ Vocabulary(sessions) = {START_TOKEN, END_TOKEN, UNK_TOKEN, "A", "B"}
    /\ Adjacent(sessions, "A", "A") = 1
    /\ counts.seq2_counts.states["A"]["A"] = 2
    /\ C26_Raw("A") = 2
    /\ counts.seq1_counts.states["A"] = 10

(* C27: in the value-aware compute_counts, for every parameter p of the    *)
(* parameter vocabulary (observed parameters plus the unknown token) the   *)
(* (parameter, value) row of p holds exactly the values observed with p in *)
(* training, each with its raw count plus 1, and the unknown token with    *)
(* count 1: the row has (number of distinct values of p) + 1 entries and   *)
(* a value never observed with p has no entry.                             *)
RECURSIVE C27_Raw(_, _, _)
C27_Raw(sess, p, v) ==
    IF sess = <<>> THEN 0
    ELSE Cardinality({i \in 1..Len(Head(sess)) :
                         /\ p \in DOMAIN Head(sess)[i].params
                         /\ Head(sess)[i].params[p] = v})
         + C27_Raw(Tail(sess), p, v)

C27_AllValues == UNION {{cmd.params[p] : p \in DOMAIN cmd.params} : cmd \in TrainCmds}

C27_Values(p) == {v \in C27_AllValues : C27_Raw(sessions, p, v) > 0}

C27_Params == {p \in C15_AllParams : C27_Values(p) # {}} \cup {UNK_TOKEN}

C27_ValueRows ==
    (Counted /\ variant = "values") =>
        /\ Keys(counts.param_value_counts.states) = C27_Params
        /\ \A p \in C27_Params :
             /\ Keys(counts.param_value_counts.states[p]) = C27_Values(p) \cup {UNK_TOKEN}
             /\ Cardinality(Keys(counts.param_value_counts.states[p]))
                    = Cardinality(C27_Values(p)) + 1
             /\ counts.param_value_counts.states[p][UNK_TOKEN] = 1
             /\ \A v \in C27_Values(p) :
                    counts.param_value_counts.states[p][v] = C27_Raw(sessions, p, v) + 1

\* p seen with x and with y, q with x only: y is in the value vocabulary
\* and has no entry in the row of q
C27_Witness ==
    /\ Counted
    /\ variant = "values"
    /\ C27_Values("p") = {"x", "y"}
    /\ C27_Values("q") = {"x"}
    /\ Keys(counts.param_value_counts.states["q"]) = {"x", UNK_TOKEN}
    /\ counts.param_value_counts.states["p"]["x"] = 2
    /\ Keys(counts.param_value_counts.states[UNK_TOKEN]) = {UNK_TOKEN}

(* C28: marginal consistency of the counting pass: in the tables of        *)
(* compute_counts, for every parameter p the unigram parameter count is    *)
(* the sum over all commands of the (command, p) joint count, and in the   *)
(* value-aware variant for every value v the unigram value count is the    *)
(* sum over all parameters of the (parameter, v) joint count; both before  *)
(* and after smoothing.                                                    *)
RECURSIVE C28_ColumnSum(_, _, _)
C28_ColumnSum(joint, rows, b) ==
    IF rows = {} THEN 0
    ELSE LET a == CHOOSE x \in rows : TRUE
         IN (IF b \in Keys(joint[a]) THEN joint[a][b] ELSE 0)
            + C28_ColumnSum(joint, rows \ {a}, b)

C28_Marginal(single, joint) ==
    \A b \in Keys(single) \cup UNION {Keys(joint[a]) : a \in Keys(joint)} :
        /\ b \in Keys(single)
        /\ single[b] = C28_ColumnSum(joint, Keys(joint), b)

\* the tables when the counting loop is over and no smoothing is applied yet
C28_Before ==
    CountSessions(NewCounts, sessions, 1, START_TOKEN, END_TOKEN, variant = "values")

C28_MarginalConsistency ==
    Counted =>
        /\ C28_Marginal(C28_Before.param, C28_Before.cmd_param)
        /\ C28_Marginal(counts.param_counts.states, counts.cmd_param_counts.states)
        /\ variant = "values" =>
             /\ C28_Marginal(C28_Before.value, C28_Before.param_value)
             /\ C28_Marginal(counts.value_counts.states,
                             counts.param_value_counts.states)

\* q is seen once with A and once with B: 2 before smoothing, 4 after, one
\* more in each of the two rows
C28_Witness ==
    /\ Counted
    /\ variant = "values"
    /\ "q" \in Keys(C28_Before.param)
    /\ {"A", "B"} \subseteq Keys(C28_Before.cmd_param)
    /\ "q" \in Keys(C28_Before.cmd_param["A"]) \cap Keys(C28_Before.cmd_param["B"])
    /\ C28_Before.param["q"] = 2
    /\ counts.param_counts.states["q"] = 4
    /\ counts.cmd_param_counts.states["A"]["q"] = 2
    /\ counts.cmd_param_counts.states["B"]["q"] = 2
    /\ counts.value_counts.states["x"] = C28_Before.value["x"] + 1

(* C29: the parameter-set likelihood of a command depends on the supplied  *)
(* parameter set P only through the intersection of P with the keys of the *)
(* command's reference row: for a non-empty P, adding or removing          *)
(* parameters that are not keys of ref leaves the result unchanged as long *)
(* as P stays non-empty, and emptying P gives 1.                           *)
C29_Again(P) ==
    IF variant = "only"
      THEN compute_prob_setofparams_given_cmd_only(
               call.cmd.name, P, probs.params.joint, call.use_geo_mean)
      ELSE compute_prob_setofparams_given_cmd_values(
               call.cmd.name, [q \in P |-> "x"], probs.params.joint,
               probs.values.joint, call.modellable, call.use_geo_mean)

C29_SameInRef(P1, P2) == P1 \cap Keys(C9_Ref) = P2 \cap Keys(C9_Ref)

C29_OnlyThroughRef ==
    IsParamsCall =>
        /\ C29_Again({}) = One
        /\ Keys(call.cmd.params) = {} => call.result = One
        /\ Keys(call.cmd.params) # {} =>
             \A P2 \in (SUBSET RowParams) \ {{}} :
                 C29_SameInRef(Keys(call.cmd.params), P2) => C29_Again(P2) = call.result

\* P = {p, r} over a row with p and q: r makes no difference, q does, and
\* the empty set gives 1
C29_Witness ==
    /\ IsParamsCall
    /\ Keys(C9_Ref) = {"p", "q"}
    /\ Keys(call.cmd.params) = {"p", "r"}
    /\ call.use_geo_mean
    /\ call.result.kind = "pos"
    /\ call.result # One
    /\ C29_Again({"p"}) = call.result
    /\ C29_Again({"p", "q"}) # call.result
    /\ C29_Again({}) = One

(* C30: the value-aware variant refines the parameter-only variant: for    *)
(* the same training sessions (the parameter-only params being the key     *)
(* sets of the value-aware mappings) the first four count tables of the    *)
(* two compute_counts are identical, and with an empty modellable set the  *)
(* value-aware compute_likelihood_window,                                  *)
(* compute_likelihood_windows_in_session and rarest_window_session return  *)
(* the likelihoods and the rarest-window position of the parameter-only    *)
(* functions.                                                              *)
C30_OnlyCounts == compute_counts_only(sessions, START_TOKEN, END_TOKEN, UNK_TOKEN)

C30_SameTables(only) ==
    /\ counts.seq1_counts = only.seq1_counts
    /\ counts.seq2_counts = only.seq2_counts
    /\ counts.param_counts = only.param_counts
    /\ counts.cmd_param_counts = only.cmd_param_counts
    /\ probs.cmds = compute_cmds_probs(only.seq1_counts, only.seq2_counts, UNK_TOKEN)
    /\ probs.params = compute_params_probs(only.param_counts, only.cmd_param_counts,
                                           UNK_TOKEN)

\* the parameter-only functions over the parameter-only tables, which are
\* the first tables of the value-aware training
C30_OnlyModel ==
    [variant |-> "only",
     prior_probs |-> probs.cmds.single,
     trans_probs |-> probs.cmds.joint,
     param_cond_cmd_probs |-> probs.params.joint,
     value_cond_param_probs |-> None,
     modellable_params |-> {}]

C30_OnlyRarest ==
    rarest_window_session(call.session, C30_OnlyModel, call.window_len,
                          call.use_start_end_tokens, START_TOKEN, END_TOKEN,
                          call.use_geo_mean)

C30_SameRarest(only) ==
    /\ call.result.lik = only.lik
    /\ call.result.ind = only.ind
    /\ call.result.window = only.window

C30_SameScores ==
    /\ IsWindowCall =>
         call.result = compute_likelihood_window(
                           call.window, C30_OnlyModel, call.use_start_token,
                           call.use_end_token, START_TOKEN, END_TOKEN)
    /\ IsWindowsCall =>
         call.result = compute_likelihood_windows_in_session(
                           call.session, C30_OnlyModel, call.window_len,
                           call.use_start_end_tokens, START_TOKEN, END_TOKEN,
                           call.use_geo_mean)
    /\ IsRarestCall => C30_SameRarest(C30_OnlyRarest)

C30_Refinement ==
    /\ (pc = "trained" /\ variant = "values") => C30_SameTables(C30_OnlyCounts)
    /\ (pc = "scored" /\ variant = "values" /\ call.fn # None) =>
           (call.modellable = {} => C30_SameScores)

\* a value-aware rarest call, nothing modellable, over commands with
\* parameters: the second of two windows is the rarest
C30_Witness ==
    /\ pc = "scored"
    /\ variant = "values"
    /\ IsRarestCall
    /\ call.modellable = {}
    /\ Len(call.session) = 3
    /\ call.window_len = 2
    /\ \A n \in 1..3 : Keys(call.session[n].params) # {}
    /\ call.result.lik.kind = "pos"
    /\ call.result.ind = 1
    /\ call.result.ind = C30_OnlyRarest.ind
    /\ Keys(probs.params.joint.states["A"]) = {"p", "q", UNK_TOKEN}

=============================================================================
